---- MODULE Spec2Model ----
(***************************************************************************)
(* Ghost-zone exchange of AthenaK: the receive side of BoundaryValues      *)
(* (bvals.cpp) and the orbital-advection exchange of the shearing box      *)
(* (orbital_advection.cpp).                                                *)
(*                                                                         *)
(* Two specifications share the mesh topology:                             *)
(*   Spec     the BoundaryValues object of every rank (recv_buf, send_buf, *)
(*            vars_comm, flux_comm) driven stage after stage;              *)
(*   SpecOrb  the ShearingBox object of every rank (sendbuf_orb,           *)
(*            recvbuf_orb, comm_orb) driven stage after stage.             *)
(* The two classes share no member in the source, so each specification    *)
(* keeps the other object's variables constant.                            *)
(* SpecLive, SpecBoth and SpecOrbStages drive the same objects under       *)
(* fairness, one after the other, and over one more stage; SpecKernel      *)
(* follows the pack and unpack kernels cell by cell, and SpecBuffers the   *)
(* loops of BoundaryValues::InitializeBuffers.                             *)
(***************************************************************************)
EXTENDS Integers, Sequences, FiniteSets, TLC

\* ----------------------------------------------------------------- bounds
NBlocks == 3        \* MeshBlocks in the mesh
MaxStage == 2       \* stages run by the driver of each rank
MaxOrbStage == 1    \* orbital-advection stages run by the driver of each rank
MaxNg == 2          \* largest number of ghost cells (indcs.ng)
MaxJShift == 2      \* largest maxjshift
MaxDx2 == 2         \* largest cell width dx2, in units of length
ExampleCells == 8   \* a longer line of cells: indcs.nx2 of the 8-cell example

\* ------------------------------------------------------ program constants
nnghbr == 56        \* neighbour slots of a MeshBlock (indices 0..55)
X1LO == 0           \* NeighborIndx(-1,0,0,0,0)
X1HI == 4           \* NeighborIndx(+1,0,0,0,0)
X2LO == 8           \* NeighborIndx(0,-1,0,0,0)
X2HI == 12          \* NeighborIndx(0,+1,0,0,0)
MPI_COMM_WORLD == 0
NumOrbBufs == 2     \* sendbuf_orb / recvbuf_orb: one buffer per x2-face

VARIABLES
  topo,            \* the mesh topology of the run (fixed during a run)
  \* ---- BoundaryValues, one object per rank
  bpc,             \* task the driver of the rank runs next
  stage,           \* stages the rank has finished
  recv_vars_stat,  \* recv_buf[n].vars_stat[m]
  recv_vars_req,   \* recv_buf[n].vars_req[m]
  send_vars_req,   \* send_buf[n].vars_req[m]
  send_vars_stat,  \* send_buf[n].vars_stat[m]
  flux_stat,       \* send_buf[n].flux_stat[m] and recv_buf[n].flux_stat[m]
  flux_req,        \* send_buf[n].flux_req[m] and recv_buf[n].flux_req[m]
  vars_comm,       \* communicator of variable traffic
  flux_comm,       \* communicator of flux-correction traffic
  net,             \* messages in flight between BoundaryValues objects
  last,            \* the call a rank finished last, with its result
  \* ---- ShearingBox, one object per rank
  opc,             \* task the driver of the rank runs next
  ostage,          \* orbital stages the rank has finished
  orb_rreq,        \* recvbuf_orb[b].vars_req[m] / flds_req[m]
  orq,             \* receives posted on comm_orb, in posting order
  onet,            \* messages in flight on comm_orb, in sending order
  olast,           \* the call a rank finished last, with its result
  orb_buf,         \* what recvbuf_orb[b].vars / .flds holds for block m
  \* ---- the pack and unpack kernels of one ShearingBox, cell by cell
  kin,             \* mesh indices of the run: ng, nx2, maxjshift
  krank,           \* global_variable::my_rank
  kpc,             \* kernel that runs next
  krbuf,           \* cells written in recvbuf_orb[b].vars(m, ., ., idx, .)
  kgather,         \* u0_(jj) of every block after the load of the unpack
  kshear,          \* dx2, yshear and rcon of the line of cells
  kout,            \* u0(m,n,k,j,i), js <= j <= je, after oa-unpk
  ksum,            \* sum of the interior cells of each rank after oa-unpk
  \* ---- InitializeBuffers of one BoundaryValues object
  pmesh,           \* pmy_pack->pmesh: the flags of the mesh
  ib_pc,           \* loop nest and pass InitializeBuffers runs next
  u_in,            \* the arrays of the inflow boundary conditions
  send_buf,        \* calls made on send_buf[n]
  recv_buf,        \* calls made on recv_buf[n]
  \* ---- step 2 of RecvAndUnpackFC_Orb on one block, cell by cell
  fcpc,            \* kernel that runs next
  fcin,            \* the values the call works on
  emfx,            \* pmhd->efld.x1e(m,k,j,i)
  emfz,            \* pmhd->efld.x3e(m,k,j,i)
  emf_new,         \* elements of emfx / emfz assigned in this call
  emf_read,        \* elements of emfx / emfz the CT updates read
  b0,              \* b0.x1f, b0.x2f, b0.x3f of the block
  \* ---- the size of one receive of BoundaryValues::InitRecv
  szpc,            \* whether the receive of (m,n) is posted
  szbuf,           \* recv_buf[n]: data sizes and capacity
  szlev,           \* nghbr.h_view(m,n).lev and mblev.h_view(m)
  data_size,       \* the count handed to MPI_Irecv
  szcalls,         \* calls of InitRecv so far
  \* ---- the kernel oa-pack of one ShearingBox, team by team
  pkpc,            \* whether the league is running
  pkin,            \* mesh indices and nvar of the call
  pkrank,          \* global_variable::my_rank
  league,          \* league rank of the team that runs next
  pkcopies,        \* how often each copy (cell read, element written) was made
  pkteams,         \* the (m, n, v) of the teams that have run
  \* ---- the teams of the kernel oa-unpk, thread by thread
  rcpc,            \* steps each (team, thread) has finished
  rcin,            \* mesh indices and joffset of the lines
  rcld,            \* elements of u0_ loaded, as (team, jj)
  rcfx,            \* elements of flx computed, as (team, j)
  rcwr,            \* elements of u0 written, as (team, j)
  rcbad,           \* accesses made out of order
  \* ---- RadiationFEMN::ExpRKUpdate on one pack
  rkpc,            \* "kernel", then "complete" (returned) or "exited"
  rkin,            \* sizes of the pack and the stage
  rkran,           \* the teams (m, nuen, k, j, i) that have run to their end
  rkf0             \* the (m, united index, k, j, i) of f0 written

bvars == <<bpc, stage, recv_vars_stat, recv_vars_req, send_vars_req,
           vars_comm, flux_comm, send_vars_stat, flux_stat, flux_req, net, last>>
ovars == <<opc, ostage, orb_rreq, orq, onet, olast, orb_buf>>
kvars == <<kin, krank, kpc, krbuf, kgather, kshear, kout, ksum>>
ivars == <<pmesh, ib_pc, u_in, send_buf, recv_buf>>
fvars == <<fcpc, fcin, emfx, emfz, emf_new, emf_read, b0>>
szvars == <<szpc, szbuf, szlev, data_size, szcalls>>
pkvars == <<pkpc, pkin, pkrank, league, pkcopies, pkteams>>
rcvars == <<rcpc, rcin, rcld, rcfx, rcwr, rcbad>>
rkvars == <<rkpc, rkin, rkran, rkf0>>
xvars == <<szvars, pkvars, rcvars, rkvars>>
vars == <<topo, bpc, stage, recv_vars_stat, recv_vars_req, send_vars_req,
          vars_comm, flux_comm, send_vars_stat, flux_stat, flux_req, net, last,
          opc, ostage, orb_rreq, orq, onet, olast, orb_buf,
          kin, krank, kpc, krbuf, kgather, kshear, kout, ksum,
          pmesh, ib_pc, u_in, send_buf, recv_buf,
          fcpc, fcin, emfx, emfz, emf_new, emf_read, b0,
          szpc, szbuf, szlev, data_size, szcalls,
          pkpc, pkin, pkrank, league, pkcopies, pkteams,
          rcpc, rcin, rcld, rcfx, rcwr, rcbad,
          rkpc, rkin, rkran, rkf0>>

\* ------------------------------------------------------------------ mesh
Gids == 0 .. (NBlocks - 1)
Slots == 0 .. (nnghbr - 1)

\* The blocks form a periodic ring along one direction; across the other
\* direction a block has no neighbour or is its own periodic neighbour. The
\* mesh is run on one rank or distributed over two.
Topologies == [ring : {"x1", "x2"}, other : {"none", "self"}, nranks : {1, 2}]

Ranks(t) == 0 .. (t.nranks - 1)

\* number of MeshBlocks of rank r: rank 0 owns all blocks the other ranks
\* (one block each) do not own
nmb_thispack(t, r) == IF r = 0 THEN NBlocks - (t.nranks - 1) ELSE 1

\* first global id of rank r; ids are sequential inside a rank
gids_eachrank(t, r) == IF r = 0 THEN 0 ELSE nmb_thispack(t, 0) + (r - 1)

RankOf(t, g) ==
  IF g < nmb_thispack(t, 0) THEN 0 ELSE g - nmb_thispack(t, 0) + 1

mb_gid(t, r, m) == gids_eachrank(t, r) + m
MBs(t, r) == 0 .. (nmb_thispack(t, r) - 1)

NoNeighbor == [gid |-> -1, rank |-> -1, lev |-> -1, dest |-> -1]
Neighbor(t, g, d) == [gid |-> g, rank |-> RankOf(t, g), lev |-> 0, dest |-> d]

RingLo(t) == IF t.ring = "x1" THEN X1LO ELSE X2LO
RingHi(t) == IF t.ring = "x1" THEN X1HI ELSE X2HI
OtherLo(t) == IF t.ring = "x1" THEN X2LO ELSE X1LO
OtherHi(t) == IF t.ring = "x1" THEN X2HI ELSE X1HI

\* nghbr.h_view(m,n) of the block with global id g
NghbrOfGid(t, g, n) ==
  IF n = RingLo(t) THEN Neighbor(t, (g + NBlocks - 1) % NBlocks, RingHi(t))
  ELSE IF n = RingHi(t) THEN Neighbor(t, (g + 1) % NBlocks, RingLo(t))
  ELSE IF n = OtherLo(t) /\ t.other = "self" THEN Neighbor(t, g, OtherHi(t))
  ELSE IF n = OtherHi(t) /\ t.other = "self" THEN Neighbor(t, g, OtherLo(t))
  ELSE NoNeighbor

nghbr(t, r, m, n) == NghbrOfGid(t, mb_gid(t, r, m), n)

\* ------------------------------------------------------------ transport
\* tag of the receive buffer bufid of the block with local id lid
CreateMPITag(lid, bufid) == lid * nnghbr + bufid

\* a duplicate of a communicator is a context no earlier call returned
MPI_Comm_dup(ncontexts) == ncontexts + 1

\* ----------------------------------------------- BoundaryValues (bvals.cpp)
\* BoundaryValues::BoundaryValues: status flags undef, requests null, and
\* two communicators duplicated from MPI_COMM_WORLD
CtorCommsShared(r) ==
  [vars_comm |-> MPI_Comm_dup(MPI_COMM_WORLD),
   flux_comm |-> MPI_Comm_dup(MPI_COMM_WORLD)]

CtorComms(r) ==
  LET vc == MPI_Comm_dup(MPI_COMM_WORLD)
  IN  [vars_comm |-> vc, flux_comm |-> MPI_Comm_dup(vc)]

CtorStat(t, r) == [n \in Slots |-> [m \in MBs(t, r) |-> "undef"]]
CtorReq(t, r) == [n \in Slots |-> [m \in MBs(t, r) |-> "null"]]

NoCall == [op |-> "none", ret |-> "none", log |-> <<>>]

\* the tasks of one stage in the order the driver runs them: the sends of a
\* rank are issued before it waits for its receives
TaskOrderWaitFirst == <<"InitRecv", "ClearRecv", "PackAndSend", "ClearSend">>

TaskOrder == <<"InitRecv", "PackAndSend", "ClearRecv", "ClearSend">>

\* the task that follows task op in a stage
NextTask(op) ==
  TaskOrder[1 + CHOOSE i \in 1 .. (Len(TaskOrder) - 1) : TaskOrder[i] = op]

\* the driver aborts the run when a task of some rank returned fail
Running == \A q \in Ranks(topo) : bpc[q] # "failed"

\* -- BoundaryValues::InitRecv
\* the flag of (m,n) is set when the neighbour exists
InitRecvSetsWaitingRemoteOnly(t, r, m, n) ==
  nghbr(t, r, m, n).gid >= 0 /\ nghbr(t, r, m, n).rank # r

InitRecvSetsWaiting(t, r, m, n) == nghbr(t, r, m, n).gid >= 0

\* a receive is posted when the neighbour exists and is on another rank
InitRecvPostsAnyRank(t, r, m, n) == nghbr(t, r, m, n).gid >= 0

InitRecvPosts(t, r, m, n) ==
  nghbr(t, r, m, n).gid >= 0 /\ nghbr(t, r, m, n).rank # r

\* if (ierr != MPI_SUCCESS) {no_errors=false;}
NoErrors(no_errors, ierr_ok) == no_errors /\ ierr_ok

\* whether the loop goes on to the next (m,n) after this registration
KeepPostingStopAtError(no_errors) == no_errors

KeepPosting(no_errors) == TRUE

\* one pass of the body of the double loop, for block m and slot n;
\* errs holds the (m,n) whose MPI_Irecv returns an error
InitRecvBody(t, r, m, n, errs, acc) ==
    LET post == InitRecvPosts(t, r, m, n)
        ok == <<m, n>> \notin errs
        entry == [m |-> m, n |-> n, src |-> nghbr(t, r, m, n).rank,
                  tag |-> CreateMPITag(m, n), comm |-> vars_comm[r],
                  ok |-> ok]
        noerr == IF post THEN NoErrors(acc.no_errors, ok) ELSE acc.no_errors
    IN  [stat |-> IF InitRecvSetsWaiting(t, r, m, n)
                    THEN [acc.stat EXCEPT ![n][m] = "waiting"]
                    ELSE acc.stat,
         req |-> IF post /\ ok
                   THEN [acc.req EXCEPT ![n][m] = "pending"]
                   ELSE acc.req,
         log |-> IF post THEN Append(acc.log, entry) ELSE acc.log,
         no_errors |-> noerr,
         go |-> IF post THEN KeepPosting(noerr) ELSE TRUE]

\* for (m=0; m<nmb; ++m) for (n=0; n<nnghbr; ++n): the passes numbered
\* lo .. hi-1 in the order of the code, pass k being (m,n) = (k / nnghbr,
\* k mod nnghbr); the range is halved to keep the evaluation shallow, and the
\* singleton set binds the state after the first half before the second
RECURSIVE InitRecvLoop(_, _, _, _, _, _)
InitRecvLoop(t, r, lo, hi, errs, acc) ==
  IF hi <= lo \/ ~acc.go THEN acc
  ELSE IF hi = lo + 1
    THEN InitRecvBody(t, r, lo \div nnghbr, lo % nnghbr, errs, acc)
  ELSE LET mid == (lo + hi) \div 2
       IN  CHOOSE res \in
             {InitRecvLoop(t, r, mid, hi, errs, a) :
                a \in {InitRecvLoop(t, r, lo, mid, errs, acc)}} : TRUE

InitRecvResult(no_errors) == IF no_errors THEN "complete" ELSE "fail"

\* the (m,n) of rank r whose neighbour is on another rank
RemotePairs(t, r) ==
  {p \in MBs(t, r) \X Slots :
     nghbr(t, r, p[1], p[2]).gid >= 0 /\ nghbr(t, r, p[1], p[2]).rank # r}

\* MPI_Irecv registers the receive and returns; it does not wait for the
\* message of (m,n)
InitRecvWaitsForMessage(t, r, m, n) == InitRecvPosts(t, r, m, n)

InitRecvWaits(t, r, m, n) == FALSE

InitRecv(r) ==
  /\ Running
  /\ bpc[r] = "InitRecv"
  /\ \A m \in MBs(topo, r) : \A n \in Slots :
       InitRecvWaits(topo, r, m, n) =>
         \E msg \in net : msg.dst = r /\ msg.src = nghbr(topo, r, m, n).rank
                          /\ msg.tag = CreateMPITag(m, n)
  /\ \E errs \in SUBSET RemotePairs(topo, r) :
     \E res \in {InitRecvLoop(topo, r, 0, nmb_thispack(topo, r) * nnghbr, errs,
                     [stat |-> recv_vars_stat[r], req |-> recv_vars_req[r],
                      log |-> <<>>, no_errors |-> TRUE, go |-> TRUE])} :
       LET ret == InitRecvResult(res.no_errors)
       IN  /\ recv_vars_stat' = [recv_vars_stat EXCEPT ![r] = res.stat]
           /\ recv_vars_req' = [recv_vars_req EXCEPT ![r] = res.req]
           /\ last' = [last EXCEPT ![r] =
                         [op |-> "InitRecv", ret |-> ret, log |-> res.log]]
           /\ bpc' = [bpc EXCEPT ![r] =
                        IF ret = "complete" THEN NextTask("InitRecv") ELSE "failed"]
  /\ UNCHANGED <<topo, stage, send_vars_req, vars_comm, flux_comm, send_vars_stat, flux_stat, flux_req, net>>
  /\ UNCHANGED ovars
  /\ UNCHANGED <<kvars, ivars, fvars, xvars>>

\* -- the send side of the same exchange (pack, then one non-blocking send
\* to every neighbour on another rank, tagged for the receiving buffer)
SendMsg(t, r, m, n) ==
  LET nb == nghbr(t, r, m, n)
  IN  [src |-> r, dst |-> nb.rank,
       tag |-> CreateMPITag(nb.gid - gids_eachrank(t, nb.rank), nb.dest),
       comm |-> vars_comm[r], m |-> m, n |-> n]

PackAndSend(r) ==
  /\ Running
  /\ bpc[r] = "PackAndSend"
  /\ LET rp == RemotePairs(topo, r)
     IN  /\ net' = net \cup {SendMsg(topo, r, p[1], p[2]) : p \in rp}
         /\ send_vars_req' = [send_vars_req EXCEPT ![r] =
               [n \in Slots |-> [m \in MBs(topo, r) |->
                  IF <<m, n>> \in rp THEN "pending" ELSE @[n][m]]]]
  /\ last' = [last EXCEPT ![r] =
                [op |-> "PackAndSend", ret |-> "complete", log |-> <<>>]]
  /\ bpc' = [bpc EXCEPT ![r] = NextTask("PackAndSend")]
  /\ UNCHANGED <<topo, stage, recv_vars_stat, recv_vars_req, vars_comm,
                 flux_comm, send_vars_stat, flux_stat, flux_req>>
  /\ UNCHANGED ovars
  /\ UNCHANGED <<kvars, ivars, fvars, xvars>>

\* the receive of (m,n) on rank r that a message matches: same source,
\* same tag, same communicator
Matches(t, r, m, n, msg) ==
  /\ recv_vars_req[r][n][m] = "pending"
  /\ nghbr(t, r, m, n).rank = msg.src
  /\ CreateMPITag(m, n) = msg.tag
  /\ vars_comm[r] = msg.comm

\* the transport completes one send and the receive it matches
Deliver ==
  \E msg \in net : \E m \in MBs(topo, msg.dst) : \E n \in Slots :
    /\ Running
    /\ Matches(topo, msg.dst, m, n, msg)
    /\ net' = net \ {msg}
    /\ recv_vars_req' = [recv_vars_req EXCEPT ![msg.dst][n][m] = "arrived"]
    /\ send_vars_req' = [send_vars_req EXCEPT ![msg.src][msg.n][msg.m] = "arrived"]
    /\ UNCHANGED <<topo, bpc, stage, recv_vars_stat, vars_comm, flux_comm, send_vars_stat, flux_stat, flux_req, last>>
    /\ UNCHANGED ovars
    /\ UNCHANGED <<kvars, ivars, fvars, xvars>>

\* -- BoundaryValues::ClearRecv / ClearSend
\* the requests the loop passes to MPI_Wait
ClearWaitsSameRank(t, r, m, n) ==
  nghbr(t, r, m, n).gid >= 0 /\ nghbr(t, r, m, n).rank = r

ClearWaits(t, r, m, n) ==
  nghbr(t, r, m, n).gid >= 0 /\ nghbr(t, r, m, n).rank # r

WaitSet(t, r) == {p \in MBs(t, r) \X Slots : ClearWaits(t, r, p[1], p[2])}

\* MPI_Wait returns once its request is finished and leaves it null
AfterWait(t, r, req) ==
  LET ws == WaitSet(t, r)
  IN  [n \in Slots |-> [m \in MBs(t, r) |->
         IF <<m, n>> \in ws THEN "null" ELSE req[n][m]]]

\* the k-th pass of for (m=0; m<nmb; ++m) for (n=0; n<nnghbr; ++n);
\* errs holds the (m,n) whose MPI_Wait returns an error
ClearEntry(t, r, k, errs) ==
  LET m == (k - 1) \div nnghbr
      n == (k - 1) % nnghbr
  IN  [m |-> m, n |-> n, wait |-> ClearWaits(t, r, m, n),
       ok |-> <<m, n>> \notin errs]

\* the calls of MPI_Wait in the order made
ClearLog(t, r, errs) ==
  SelectSeq([k \in 1 .. (nmb_thispack(t, r) * nnghbr) |-> ClearEntry(t, r, k, errs)],
            LAMBDA e : e.wait)

\* if (ierr != MPI_SUCCESS) {no_errors=false;} over the whole loop
ClearNoErrors(log) == \A i \in DOMAIN log : log[i].ok

ClearRecv(r) ==
  /\ Running
  /\ bpc[r] = "ClearRecv"
  /\ \A p \in WaitSet(topo, r) : recv_vars_req[r][p[2]][p[1]] # "pending"
  /\ \E errs \in SUBSET WaitSet(topo, r) :
       LET log == ClearLog(topo, r, errs)
           ok == ClearNoErrors(log)
       IN  /\ last' = [last EXCEPT ![r] =
                [op |-> "ClearRecv", ret |-> InitRecvResult(ok), log |-> log]]
           /\ bpc' = [bpc EXCEPT ![r] = IF ok THEN NextTask("ClearRecv") ELSE "failed"]
  /\ recv_vars_req' = [recv_vars_req EXCEPT ![r] = AfterWait(topo, r, @)]
  /\ UNCHANGED <<topo, stage, recv_vars_stat, send_vars_req, vars_comm,
                 flux_comm, send_vars_stat, flux_stat, flux_req, net>>
  /\ UNCHANGED ovars
  /\ UNCHANGED <<kvars, ivars, fvars, xvars>>

ClearSend(r) ==
  /\ Running
  /\ bpc[r] = "ClearSend"
  /\ \A p \in WaitSet(topo, r) : send_vars_req[r][p[2]][p[1]] # "pending"
  /\ \E errs \in SUBSET WaitSet(topo, r) :
       LET log == ClearLog(topo, r, errs)
           ok == ClearNoErrors(log)
       IN  /\ last' = [last EXCEPT ![r] =
                [op |-> "ClearSend", ret |-> InitRecvResult(ok), log |-> log]]
           /\ bpc' = [bpc EXCEPT ![r] =
                IF ~ok THEN "failed"
                ELSE IF stage[r] + 1 < MaxStage THEN "InitRecv" ELSE "done"]
           /\ stage' = [stage EXCEPT ![r] = IF ok THEN @ + 1 ELSE @]
  /\ send_vars_req' = [send_vars_req EXCEPT ![r] = AfterWait(topo, r, @)]
  /\ UNCHANGED <<topo, recv_vars_stat, recv_vars_req, vars_comm, flux_comm, send_vars_stat, flux_stat, flux_req, net>>
  /\ UNCHANGED ovars
  /\ UNCHANGED <<kvars, ivars, fvars, xvars>>

\* ------------------------------- ShearingBox (orbital_advection.cpp)
\* the communicator of the orbital exchange
comm_orb == "comm_orb"

CreateBvals_MPI_Tag(lid, bufid) == lid * nnghbr + bufid

OrbBufs == 0 .. (NumOrbBufs - 1)

\* if (n==0) {nnghbr=8;} else {nnghbr=12;}
OrbSlot(b) == IF b = 0 THEN X2LO ELSE X2HI

\* int dm = nghbr.d_view(m,nnghbr).gid - mbgid.d_view(0);
OaDestBlockSelf(t, r, m, n) == m

OaDestBlock(t, r, m, n) == nghbr(t, r, m, OrbSlot(n)).gid - mb_gid(t, r, 0)

\* int dn = (n+1) % 2;
OaDestBufSame(n) == n

OaDestBufZero(n) == 0

OaDestBuf(n) == (n + 1) % 2

\* the (m, n) the kernel copies straight into a receive buffer
OaCopiesLocal(t, r, m, n) ==
  nghbr(t, r, m, OrbSlot(n)).gid >= 0 /\ nghbr(t, r, m, OrbSlot(n)).rank = r

\* a buffer holds the face `face' of block `from' packed in stage `stage',
\* and `read' is the stage of the last unpack that read the buffer; -1
\* stands for none
NoData == [from |-> -1, face |-> -1, stage |-> -1, read |-> -1]

\* a buffer no kernel has packed holds no defined data
NotPacked == [from |-> -2, face |-> -2, stage |-> -2, read |-> -1]

OrbBufInit(r) ==
  [kind \in {"vars", "flds"} |-> [b \in OrbBufs |-> [m \in MBs(topo, r) |-> NoData]]]

OrbReqInit(r) ==
  [vars |-> [b \in OrbBufs |-> [m \in MBs(topo, r) |-> "null"]],
   flds |-> [b \in OrbBufs |-> [m \in MBs(topo, r) |-> "null"]]]

\* the run is over once a rank has ended its process after an MPI error
OrbRunning == \A q \in Ranks(topo) : opc[q] # "exited"

OrbInit ==
  /\ opc = [r \in Ranks(topo) |-> "InitRecv"]
  /\ ostage = [r \in Ranks(topo) |-> 0]
  /\ orb_rreq = [r \in Ranks(topo) |-> OrbReqInit(r)]
  /\ orq = [r \in Ranks(topo) |-> <<>>]
  /\ onet = [r \in Ranks(topo) |-> <<>>]
  /\ olast = [r \in Ranks(topo) |-> NoCall]
  /\ orb_buf = [r \in Ranks(topo) |-> OrbBufInit(r)]

\* -- posting of the receives of one orbital stage: for the cell-centred
\* variables, then for the face-centred fields, one receive into
\* recvbuf_orb[b] of block m from the x2-face neighbour on another rank,
\* tagged with the block's local id and the slot of that face
OrbRecvEntry(t, r, k) ==
  LET idx == (k - 1) % (nmb_thispack(t, r) * NumOrbBufs)
      m == idx \div NumOrbBufs
      b == idx % NumOrbBufs
  IN  [kind |-> IF k <= nmb_thispack(t, r) * NumOrbBufs THEN "vars" ELSE "flds",
       b |-> b, m |-> m, src |-> nghbr(t, r, m, OrbSlot(b)).rank,
       tag |-> CreateBvals_MPI_Tag(m, OrbSlot(b)), comm |-> comm_orb,
       live |-> TRUE,
       post |-> nghbr(t, r, m, OrbSlot(b)).gid >= 0
                /\ nghbr(t, r, m, OrbSlot(b)).rank # r]

OrbRecvSeq(t, r) ==
  SelectSeq([k \in 1 .. (2 * nmb_thispack(t, r) * NumOrbBufs) |-> OrbRecvEntry(t, r, k)],
            LAMBDA e : e.post)

SameHandle(e, f) == e.kind = f.kind /\ e.b = f.b /\ e.m = f.m

InitRecvOrb(r) ==
  /\ OrbRunning
  /\ opc[r] = "InitRecv"
  /\ LET new == OrbRecvSeq(topo, r)
         old == [i \in DOMAIN orq[r] |->
                   IF \E j \in DOMAIN new : SameHandle(new[j], orq[r][i])
                     THEN [orq[r][i] EXCEPT !.live = FALSE]
                     ELSE orq[r][i]]
     IN  /\ orq' = [orq EXCEPT ![r] = old \o new]
         /\ orb_rreq' = [orb_rreq EXCEPT ![r] =
              [kind \in {"vars", "flds"} |-> [b \in OrbBufs |-> [m \in MBs(topo, r) |->
                 IF \E j \in DOMAIN new :
                      new[j].kind = kind /\ new[j].b = b /\ new[j].m = m
                   THEN "pending" ELSE @[kind][b][m]]]]]
  /\ opc' = [opc EXCEPT ![r] = "PackCC"]
  /\ olast' = [olast EXCEPT ![r] =
                 [op |-> "InitRecvOrb", ret |-> "complete", log |-> <<>>]]
  /\ UNCHANGED <<topo, ostage, onet, orb_buf>>
  /\ UNCHANGED bvars
  /\ UNCHANGED <<kvars, ivars, fvars, xvars>>

\* -- ShearingBox::PackAndSendCC_Orb / PackAndSendFC_Orb
OrbSendsToEveryNeighbour(t, r, m, n) == nghbr(t, r, m, n).gid >= 0

\* a send is posted for slot n of block m: neighbour exists, other rank
OrbSends(t, r, m, n) ==
  nghbr(t, r, m, n).gid >= 0 /\ nghbr(t, r, m, n).rank # r

\* int lid = nghbr.h_view(m,n).gid - pmy_pack->pmesh->gids_eachrank[drank];
OrbSendLidOwnRank(t, r, m, n) == nghbr(t, r, m, n).gid - gids_eachrank(t, r)

OrbSendLid(t, r, m, n) ==
  nghbr(t, r, m, n).gid - gids_eachrank(t, nghbr(t, r, m, n).rank)

\* the slot of the receiving buffer the tag names
OrbSendBuf(t, r, m, n) == nghbr(t, r, m, n).dest

\* the kernel packs the face of slot OrbSlot(b) into sbuf[b], b = 0, 1; the
\* host loop sends Kokkos::subview(sbuf[n].vars, m, ...) with n = 8, 12
OrbSendSrc(n) == n

OrbSendData(t, r, m, n, st) ==
  IF \E b \in OrbBufs : OrbSlot(b) = n /\ OrbSendSrc(n) = b
    THEN [from |-> mb_gid(t, r, m), face |-> OrbSendSrc(n), stage |-> st, read |-> -1]
    ELSE NotPacked

\* the copies of the kernel into the receive buffers of same-rank neighbours
OrbLocalCopies(t, r, buf, st) ==
  [b \in OrbBufs |-> [m \in MBs(t, r) |->
     LET src == {p \in MBs(t, r) \X OrbBufs :
                   /\ OaCopiesLocal(t, r, p[1], p[2])
                   /\ OaDestBuf(p[2]) = b /\ OaDestBlock(t, r, p[1], p[2]) = m}
     IN  IF src = {} THEN buf[b][m]
         ELSE LET p == CHOOSE q \in src : TRUE
              IN  [from |-> mb_gid(t, r, p[1]), face |-> p[2], stage |-> st,
                   read |-> buf[b][m].read]]]

\* the k-th pass of for (m=0; m<nmb; ++m) for (n=8; n<=12; n+=4)
OrbSendEntry(t, r, k, kind, st) ==
  LET m == (k - 1) \div 2
      n == IF (k - 1) % 2 = 0 THEN X2LO ELSE X2HI
  IN  [dst |-> nghbr(t, r, m, n).rank,
       tag |-> CreateBvals_MPI_Tag(OrbSendLid(t, r, m, n), OrbSendBuf(t, r, m, n)),
       comm |-> comm_orb, kind |-> kind, m |-> m, n |-> n, stage |-> st,
       data |-> OrbSendData(t, r, m, n, st),
       post |-> OrbSends(t, r, m, n)]

OrbSendSeq(t, r, kind, st) ==
  SelectSeq([k \in 1 .. (2 * nmb_thispack(t, r)) |-> OrbSendEntry(t, r, k, kind, st)],
            LAMBDA e : e.post)

\* err: an MPI_Isend returned an error; the call then ends the process
\* (std::exit) after the loop
\* MPI_Isend starts the send and returns; it does not wait for the receive
\* of the destination
OrbSendWaitsForRecv(t, r, m, n) == OrbSends(t, r, m, n)

OrbSendWaits(t, r, m, n) == FALSE

PackAndSend_Orb(r, kind, at, next) ==
  /\ OrbRunning
  /\ opc[r] = at
  /\ \A m \in MBs(topo, r) : \A n \in {X2LO, X2HI} :
       OrbSendWaits(topo, r, m, n) =>
         \E k \in DOMAIN orq[nghbr(topo, r, m, n).rank] :
           /\ orq[nghbr(topo, r, m, n).rank][k].src = r
           /\ orq[nghbr(topo, r, m, n).rank][k].tag
                = CreateBvals_MPI_Tag(OrbSendLid(topo, r, m, n), OrbSendBuf(topo, r, m, n))
  /\ LET sends == OrbSendSeq(topo, r, kind, ostage[r])
     IN  \E err \in {x \in BOOLEAN : x => sends # <<>>} :
           /\ onet' = [onet EXCEPT ![r] = IF err THEN @ ELSE @ \o sends]
           /\ opc' = [opc EXCEPT ![r] = IF err THEN "exited" ELSE next]
           /\ olast' = [olast EXCEPT ![r] =
                [op |-> at, ret |-> IF err THEN "exit" ELSE "complete",
                 log |-> <<>>]]
  /\ orb_buf' = [orb_buf EXCEPT ![r][kind] =
                    OrbLocalCopies(topo, r, @, ostage[r])]
  /\ UNCHANGED <<topo, ostage, orb_rreq, orq>>
  /\ UNCHANGED bvars
  /\ UNCHANGED <<kvars, ivars, fvars, xvars>>

PackAndSendCC_Orb(r) == PackAndSend_Orb(r, "vars", "PackCC", "UnpackCC")

PackAndSendFC_Orb(r) == PackAndSend_Orb(r, "flds", "PackFC", "UnpackFC")

\* -- the transport on comm_orb: messages of one sender to one destination
\* with one tag are taken in the order sent, by the receives in the order
\* posted
OrbFirstMsg(s, i) ==
  \A j \in 1 .. (i - 1) :
    ~(onet[s][j].dst = onet[s][i].dst /\ onet[s][j].tag = onet[s][i].tag)

OrbRecvTakes(d, s, i, k) ==
  /\ orq[d][k].src = s /\ orq[d][k].tag = onet[s][i].tag
  /\ orq[d][k].comm = onet[s][i].comm
  /\ \A j \in 1 .. (k - 1) :
       ~(orq[d][j].src = s /\ orq[d][j].tag = onet[s][i].tag
         /\ orq[d][j].comm = onet[s][i].comm)

Remove(seq, i) == SubSeq(seq, 1, i - 1) \o SubSeq(seq, i + 1, Len(seq))

DeliverOrb ==
  \E s \in Ranks(topo) : \E i \in DOMAIN onet[s] :
    LET d == onet[s][i].dst
    IN  \E k \in DOMAIN orq[d] :
          /\ OrbRunning
          /\ OrbFirstMsg(s, i)
          /\ OrbRecvTakes(d, s, i, k)
          /\ onet' = [onet EXCEPT ![s] = Remove(@, i)]
          /\ orq' = [orq EXCEPT ![d] = Remove(@, k)]
          /\ orb_rreq' =
               IF orq[d][k].live
                 THEN [orb_rreq EXCEPT ![d][orq[d][k].kind][orq[d][k].b][orq[d][k].m] = "arrived"]
                 ELSE orb_rreq
          /\ orb_buf' = [orb_buf EXCEPT
               ![d][orq[d][k].kind][orq[d][k].b][orq[d][k].m] =
                   [from |-> onet[s][i].data.from, face |-> onet[s][i].data.face,
                    stage |-> onet[s][i].data.stage, read |-> @.read]]
          /\ UNCHANGED <<topo, opc, ostage, olast>>
          /\ UNCHANGED bvars
          /\ UNCHANGED <<kvars, ivars, fvars, xvars>>

\* -- ShearingBox::RecvAndUnpackCC_Orb / RecvAndUnpackFC_Orb
\* step 1 passes rbuf[n].vars_req[m] (flds_req[m]) to MPI_Test for these (m,n)
OrbTests(t, r, m, n) ==
  nghbr(t, r, m, n).gid >= 0 /\ nghbr(t, r, m, n).rank # r

OrbTested(t, r) == {p \in MBs(t, r) \X Slots : OrbTests(t, r, p[1], p[2])}

\* the index of the buffer whose request is tested for slot n
OrbTestedBuf(n) == n

\* the tested (m, buffer) that lie inside recvbuf_orb, and those outside
OrbTestedIn(t, r) ==
  {<<p[1], OrbTestedBuf(p[2])>> : p \in {q \in OrbTested(t, r) : OrbTestedBuf(q[2]) \in OrbBufs}}

OrbTestedOut(t, r) ==
  {<<p[1], OrbTestedBuf(p[2])>> : p \in {q \in OrbTested(t, r) : OrbTestedBuf(q[2]) \notin OrbBufs}}

\* step 2 reads rbuf[0].vars and rbuf[1].vars of every block
OrbRead(r) == MBs(topo, r) \X OrbBufs

\* both unpacks load from rbuf[0].vars and rbuf[1].vars
OrbReadKind(kind) == "vars"

\* the buffers step 2 reads are marked as read in stage st
AfterRead(r, buf, st) ==
  [b \in OrbBufs |-> [m \in MBs(topo, r) |->
     IF <<m, b>> \in OrbRead(r) THEN [buf[b][m] EXCEPT !.read = st] ELSE buf[b][m]]]

\* MPI_Test: a finished request becomes null
AfterTest(r, req, tested) ==
  [b \in OrbBufs |-> [m \in MBs(topo, r) |->
     IF <<m, b>> \in tested /\ req[b][m] = "arrived" THEN "null" ELSE req[b][m]]]

\* oobfalse: a test of a request outside recvbuf_orb reported "not finished";
\* err: a test returned an error, and the call ends the process
RecvAndUnpack_Orb(r, kind, at, next) ==
  /\ OrbRunning
  /\ opc[r] = at
  /\ LET tin == OrbTestedIn(topo, r)
         tout == OrbTestedOut(topo, r)
     IN  \E oobfalse \in {x \in BOOLEAN : x => tout # {}} :
         \E err \in {x \in BOOLEAN : x => (tin \cup tout) # {}} :
           LET bflag == oobfalse \/ \E p \in tin : orb_rreq[r][kind][p[2]][p[1]] = "pending"
               ret == IF err THEN "exit" ELSE IF bflag THEN "incomplete" ELSE "complete"
           IN  /\ orb_rreq' = [orb_rreq EXCEPT ![r][kind] = AfterTest(r, @, tin)]
               /\ olast' = [olast EXCEPT ![r] = [op |-> at, ret |-> ret, log |-> <<>>]]
               /\ opc' = [opc EXCEPT ![r] =
                    IF err THEN "exited" ELSE IF bflag THEN at ELSE next]
               /\ ostage' = [ostage EXCEPT ![r] =
                    IF ret = "complete" /\ at = "UnpackFC" THEN @ + 1 ELSE @]
               /\ orb_buf' = IF ret = "complete"
                    THEN [orb_buf EXCEPT ![r][OrbReadKind(kind)] =
                            AfterRead(r, @, ostage[r])]
                    ELSE orb_buf
  /\ UNCHANGED <<topo, orq, onet>>
  /\ UNCHANGED bvars
  /\ UNCHANGED <<kvars, ivars, fvars, xvars>>

RecvAndUnpackCC_Orb(r) == RecvAndUnpack_Orb(r, "vars", "UnpackCC", "PackFC")

\* the driver starts the next stage after the face-centred unpack, nstage
\* stages in all
RecvAndUnpackFC_OrbOf(r, nstage) ==
  RecvAndUnpack_Orb(r, "flds", "UnpackFC",
                    IF ostage[r] + 1 < nstage THEN "InitRecv" ELSE "done")

RecvAndUnpackFC_Orb(r) == RecvAndUnpackFC_OrbOf(r, MaxOrbStage)

\* ---------------- the kernels of the cell-centred orbital exchange, by cell
\* one (v, k, i) line of cells along x2; cell j of block m holds a(m,v,k,j,i),
\* written here as the pair of the block's global id and j
js(in) == in.ng
je(in) == in.ng + in.nx2 - 1
ncells2(in) == in.nx2 + 2 * in.ng

a(t, r, m, j) == <<mb_gid(t, r, m), j>>

\* the mesh indices of a run: the buffers hold ng + maxjshift cells of a face,
\* and a block has at least that many cells along x2
KernelInputs ==
  {in \in [ng : 1 .. MaxNg, maxjshift : 1 .. MaxJShift,
           nx2 : (2 .. (MaxNg + MaxJShift + 1)) \cup {ExampleCells}] :
     in.nx2 \in {in.ng + in.maxjshift, in.ng + in.maxjshift + 1, ExampleCells}}

\* the integer shifts the buffers are sized for
JOffsets(in) == (0 - in.maxjshift) .. in.maxjshift

OaJlOneLower(in, n) == IF n = 0 THEN js(in) ELSE je(in) - (in.ng + in.maxjshift)

\* oa-pack: if (n==0) {jl = js; ju = js + (ng + maxjshift - 1);}
\*          else {jl = je - (ng + maxjshift - 1); ju = je;}
OaJl(in, n) == IF n = 0 THEN js(in) ELSE je(in) - (in.ng + in.maxjshift - 1)
OaJu(in, n) == IF n = 0 THEN js(in) + (in.ng + in.maxjshift - 1) ELSE je(in)

\* rbuf[dn].vars(dm,v,k-kl,j-jl,i-il) = a(m,v,k,j,i) for all j of the face
OaPackWrites(t, r, in, m, n) ==
  {[b |-> OaDestBuf(n), m |-> OaDestBlock(t, r, m, n),
    idx |-> j - OaJl(in, n), val |-> a(t, r, m, j)] :
     j \in OaJl(in, n) .. OaJu(in, n)}

OaPack ==
  /\ kpc = "pack"
  /\ krbuf' = UNION {OaPackWrites(topo, krank, kin, p[1], p[2]) :
                       p \in {q \in MBs(topo, krank) \X OrbBufs :
                                OaCopiesLocal(topo, krank, q[1], q[2])}}
  /\ kpc' = "unpack"
  /\ UNCHANGED <<topo, kin, krank, kgather, kshear, kout, ksum>>
  /\ UNCHANGED <<bvars, ovars, ivars, fvars, xvars>>

\* ------------------------------------ the shift and the remap of oa-unpk
\* lengths are whole numbers of a unit fine enough for dx2 and yshear:
\* dx2 = mbsize.d_view(m).dx2, yshear = -qom*x1v*dt of the line of cells
Rcons == {"dc", "plm"}

\* static_cast<int>(yshear/dx2): the quotient without its fraction
StaticCastIntFloor(y, d) == y \div d

StaticCastInt(y, d) == IF y >= 0 THEN y \div d ELSE 0 - ((0 - y) \div d)

\* fmod(yshear, dx2): what is left of yshear, with the sign of yshear
Fmod(y, d) == IF y >= 0 THEN y % d ELSE 0 - ((0 - y) % d)

\* int joffset = static_cast<int>(yshear/(mbsize.d_view(m).dx2));
JOffsetOf(s) == StaticCastInt(s.yshear, s.dx2)

\* Real epsi = fmod(yshear,dx2)/dx2, kept as its numerator over dx2
EpsiNum(s) == Fmod(s.yshear, s.dx2)

\* the shear of a run: maxjshift is set at construction so that no shift of
\* the run is longer, and the piecewise linear scheme needs two ghost cells
ShearInputs(in) ==
  {s \in [dx2 : 1 .. MaxDx2,
          yshear : (0 - ((MaxJShift + 2) * MaxDx2)) .. ((MaxJShift + 2) * MaxDx2),
          rcon : Rcons] :
     /\ JOffsetOf(s) \in JOffsets(in)
     /\ s.rcon = "plm" => in.ng >= 2}

\* the value of cell j of the block with global id g: the cells of the
\* blocks along x2 are numbered 1, 2, ... in a row
Val(in, c) == c[1] * in.nx2 + (c[2] - js(in)) + 1

\* what a cell of a buffer that no kernel of this rank wrote may hold
UnwrittenValues == {0, 0 - 1}

NumOf(in, x, junk) == IF x = "unwritten" THEN junk ELSE Val(in, x)

Minmod(p, q) ==
  IF p > 0 /\ q > 0 THEN (IF p < q THEN p ELSE q)
  ELSE IF p < 0 /\ q < 0 THEN (IF p > q THEN p ELSE q)
  ELSE 0

\* every value below is the value of the code times FlxScale(s)
FlxScale(s) == 2 * s.dx2 * s.dx2

\* DonorCellOrbAdvFlx: flx(j) = eps*u0_(j-1) for eps > 0, eps*u0_(j) otherwise
DonorCellOrbAdvFlx(s, u, j) ==
  2 * s.dx2 * EpsiNum(s) * (IF EpsiNum(s) > 0 THEN u[j - 1] ELSE u[j])

\* PcwsLinearOrbAdvFlx: the upwind cell and its limited slope
PcwsLinearOrbAdvFlx(s, u, j) ==
  LET dq(c) == Minmod(u[c] - u[c - 1], u[c + 1] - u[c])
  IN  IF EpsiNum(s) > 0
        THEN EpsiNum(s) * (2 * s.dx2 * u[j - 1] + (s.dx2 - EpsiNum(s)) * dq(j - 1))
        ELSE EpsiNum(s) * (2 * s.dx2 * u[j] - (s.dx2 + EpsiNum(s)) * dq(j))

\* switch (rcon)
OrbAdvFlx(s, u, j) ==
  IF s.rcon = "dc" THEN DonorCellOrbAdvFlx(s, u, j)
  ELSE PcwsLinearOrbAdvFlx(s, u, j)

OaUpdateNoFlux(in, s, u) == [j \in js(in) .. je(in) |-> FlxScale(s) * u[j]]

\* u0(m,n,k,j,i) = u0_(j) - (flx(j+1) - flx(j)) for j = js .. je
OaUpdate(in, s, u) ==
  [j \in js(in) .. je(in) |->
     FlxScale(s) * u[j] - (OrbAdvFlx(s, u, j + 1) - OrbAdvFlx(s, u, j))]

\* oa-unpk, the load of u0_(jj): where the value of jj comes from
OaUnpkSourceLowerOffByOne(in, jj, joffset) ==
  IF (jj - joffset) <= js(in)
    THEN [from |-> "rbuf", b |-> 0, idx |-> (jj - joffset) + in.maxjshift]
  ELSE IF (jj - joffset) < (je(in) + 1)
    THEN [from |-> "u0", b |-> -1, idx |-> jj - joffset]
  ELSE [from |-> "rbuf", b |-> 1, idx |-> (jj - joffset) - (je(in) + 1)]

OaUnpkSourceFromZero(in, jj, joffset) ==
  IF (jj - joffset) < js(in)
    THEN [from |-> "rbuf", b |-> 0, idx |-> jj - joffset]
  ELSE IF (jj - joffset) < (je(in) + 1)
    THEN [from |-> "u0", b |-> -1, idx |-> jj - joffset]
  ELSE [from |-> "rbuf", b |-> 1, idx |-> (jj - joffset) - (je(in) + 1)]

OaUnpkSourceNoShift(in, jj, joffset) ==
  IF jj < js(in)
    THEN [from |-> "rbuf", b |-> 0, idx |-> jj + in.maxjshift]
  ELSE IF jj < (je(in) + 1)
    THEN [from |-> "u0", b |-> -1, idx |-> jj]
  ELSE [from |-> "rbuf", b |-> 1, idx |-> jj - (je(in) + 1)]

OaUnpkSource(in, jj, joffset) ==
  IF (jj - joffset) < js(in)
    THEN [from |-> "rbuf", b |-> 0, idx |-> (jj - joffset) + in.maxjshift]
  ELSE IF (jj - joffset) < (je(in) + 1)
    THEN [from |-> "u0", b |-> -1, idx |-> jj - joffset]
  ELSE [from |-> "rbuf", b |-> 1, idx |-> (jj - joffset) - (je(in) + 1)]

\* the content of a cell of a receive buffer; a cell no kernel wrote holds
\* no defined value
RbufCell(buf, b, m, idx) ==
  LET hit == {e \in buf : e.b = b /\ e.m = m /\ e.idx = idx}
  IN  IF hit = {} THEN "unwritten" ELSE (CHOOSE e \in hit : TRUE).val

OaUnpkLoad(t, r, in, buf, m, jj, joffset) ==
  LET src == OaUnpkSource(in, jj, joffset)
  IN  IF src.from = "u0" THEN a(t, r, m, src.idx)
      ELSE RbufCell(buf, src.b, m, src.idx)

\* the sum of f over lo .. hi
RECURSIVE SumTo(_, _, _)
SumTo(f, lo, hi) == IF hi < lo THEN 0 ELSE f[hi] + SumTo(f, lo, hi - 1)

\* the sum of the interior cells of the blocks ms of out
RECURSIVE SumOfBlocks(_, _, _)
SumOfBlocks(out, ms, in) ==
  IF ms = {} THEN 0
  ELSE LET m == CHOOSE x \in ms : TRUE
       IN  SumTo(out[m], js(in), je(in)) + SumOfBlocks(out, ms \ {m}, in)

\* the kernels of a rank have not run
NotRun == [run |-> FALSE, sum |-> 0]

\* joffset is the integer shift of the line of cells, flx the "fluxes" of the
\* remap by the remainder, and the last loop updates the interior cells
OaUnpk ==
  /\ kpc = "unpack"
  /\ \E junk \in UnwrittenValues :
       LET joffset == JOffsetOf(kshear)
           g == [m \in MBs(topo, krank) |->
                   [jj \in 0 .. (ncells2(kin) - 1) |->
                      OaUnpkLoad(topo, krank, kin, krbuf, m, jj, joffset)]]
       IN  /\ kgather' = [joffset |-> joffset, u0_ |-> g,
                              src |-> [jj \in 0 .. (ncells2(kin) - 1) |->
                                         OaUnpkSource(kin, jj, joffset)]]
           /\ kout' = [m \in MBs(topo, krank) |->
                         OaUpdate(kin, kshear,
                                  [jj \in 0 .. (ncells2(kin) - 1) |->
                                     NumOf(kin, g[m][jj], junk)])]
  /\ ksum' = [ksum EXCEPT ![krank] =
       [run |-> TRUE, sum |-> SumOfBlocks(kout', MBs(topo, krank), kin)]]
  /\ kpc' = "done"
  /\ UNCHANGED <<topo, kin, krank, krbuf, kshear>>
  /\ UNCHANGED <<bvars, ovars, ivars, fvars, xvars>>

\* the kernels of the ranks run one rank after the other in the model: the
\* buffers of a rank are written by the kernels of that rank only
OaNextRank ==
  /\ kpc = "done"
  /\ \E r \in Ranks(topo) :
       /\ ~ksum[r].run
       /\ krank' = r
  /\ kpc' = "pack"
  /\ krbuf' = {}
  /\ UNCHANGED <<topo, kin, kgather, kshear, kout, ksum>>
  /\ UNCHANGED <<bvars, ovars, ivars, fvars, xvars>>

\* no kernel runs
KernelIdle ==
  /\ kin = [ng |-> 1, maxjshift |-> 1, nx2 |-> 2]
  /\ krank = 0
  /\ kpc = "idle"
  /\ krbuf = {}
  /\ kgather = [joffset |-> 0, u0_ |-> <<>>, src |-> <<>>]
  /\ kshear = [dx2 |-> 1, yshear |-> 0, rcon |-> "dc"]
  /\ kout = <<>>
  /\ ksum = <<>>

\* ------------------------------------- BoundaryValues::InitializeBuffers
\* the mesh flags InitializeBuffers reads: three_d implies multi_d
MeshFlags ==
  {f \in [strictly_periodic : BOOLEAN, multilevel : BOOLEAN,
          multi_d : BOOLEAN, three_d : BOOLEAN] : f.three_d => f.multi_d}

\* int nfx = 1, nfy = 1, nfz = 1; if (multilevel) {nfx = 2; ...}
nfxTwo(f) == 2

nfx(f) == IF f.multilevel THEN 2 ELSE 1
nfy(f) == IF f.multilevel /\ f.multi_d THEN 2 ELSE 1
nfzOne(f) == 1

nfz(f) == IF f.multilevel /\ f.three_d THEN 2 ELSE 1

\* MeshBlock::NeighborIndx(i, j, k, n1, n2): the slot of the neighbour at
\* offset (i, j, k), subface (n1, n2)
NeighborIndxNoSubface(i, j, k, n1, n2) ==
  IF i # 0 /\ j = 0 /\ k = 0 THEN 2 * (1 + i)
  ELSE IF i = 0 /\ j # 0 /\ k = 0 THEN 8 + 2 * (1 + j)
  ELSE IF i # 0 /\ j # 0 /\ k = 0 THEN 16 + (1 + i) + 2 * (1 + j)
  ELSE IF i = 0 /\ j = 0 /\ k # 0 THEN 24 + 2 * (1 + k)
  ELSE IF i # 0 /\ j = 0 /\ k # 0 THEN 32 + (1 + i) + 2 * (1 + k)
  ELSE IF i = 0 /\ j # 0 /\ k # 0 THEN 40 + (1 + j) + 2 * (1 + k)
  ELSE 48 + ((1 + i) \div 2) + (1 + j) + 2 * (1 + k)

NeighborIndx(i, j, k, n1, n2) ==
  IF i # 0 /\ j = 0 /\ k = 0 THEN 2 * (1 + i) + n1 + 2 * n2
  ELSE IF i = 0 /\ j # 0 /\ k = 0 THEN 8 + 2 * (1 + j) + n1 + 2 * n2
  ELSE IF i # 0 /\ j # 0 /\ k = 0 THEN 16 + (1 + i) + 2 * (1 + j) + n1
  ELSE IF i = 0 /\ j = 0 /\ k # 0 THEN 24 + 2 * (1 + k) + n1 + 2 * n2
  ELSE IF i # 0 /\ j = 0 /\ k # 0 THEN 32 + (1 + i) + 2 * (1 + k) + n1
  ELSE IF i = 0 /\ j # 0 /\ k # 0 THEN 40 + (1 + j) + 2 * (1 + k) + n1
  ELSE 48 + ((1 + i) \div 2) + (1 + j) + 2 * (1 + k)

\* for (int n=-1; n<=1; n+=2)
PlusMinus == <<-1, 1>>

\* for (int f=0; f<nf; f++)
SubBlocks(nf) == [i \in 1 .. nf |-> i - 1]

\* the passes of three nested loops, the first the outermost, in the order
\* the code runs them
Loop3(A, B, C) ==
  [i \in 1 .. (Len(A) * Len(B) * Len(C)) |->
     <<A[((i - 1) \div (Len(B) * Len(C))) + 1],
       B[(((i - 1) \div Len(C)) % Len(B)) + 1],
       C[((i - 1) % Len(C)) + 1]>>]

\* the arguments (ox1, ox2, ox3, f1, f2) of NeighborIndx, InitSendIndices
\* and InitRecvIndices in every pass of the seven loop nests
CallsOf(f, sec) ==
  LET Args(L, G(_)) == [i \in 1 .. Len(L) |-> G(L[i])]
      x1f(p) == <<p[1], 0, 0, p[3], p[2]>>    \* loops n, fz, fy
      x2f(p) == <<0, p[1], 0, p[3], p[2]>>    \* loops m, fz, fx
      x1x2(p) == <<p[2], p[1], 0, p[3], 0>>   \* loops m, n, fz
      x3f(p) == <<0, 0, p[1], p[3], p[2]>>    \* loops l, fy, fx
      x3x1(p) == <<p[2], 0, p[1], p[3], 0>>   \* loops l, n, fy
      x2x3(p) == <<0, p[2], p[1], p[3], 0>>   \* loops l, m, fx
      crn(p) == <<p[3], p[2], p[1], 0, 0>>    \* loops l, m, n
  IN  CASE sec = "x1faces" ->
             Args(Loop3(PlusMinus, SubBlocks(nfz(f)), SubBlocks(nfy(f))), x1f)
        [] sec = "x2faces" ->
             IF f.multi_d
               THEN Args(Loop3(PlusMinus, SubBlocks(nfz(f)), SubBlocks(nfx(f))), x2f)
               ELSE <<>>
        [] sec = "x1x2edges" ->
             IF f.multi_d
               THEN Args(Loop3(PlusMinus, PlusMinus, SubBlocks(nfz(f))), x1x2)
               ELSE <<>>
        [] sec = "x3faces" ->
             IF f.three_d
               THEN Args(Loop3(PlusMinus, SubBlocks(nfy(f)), SubBlocks(nfx(f))), x3f)
               ELSE <<>>
        [] sec = "x3x1edges" ->
             IF f.three_d
               THEN Args(Loop3(PlusMinus, PlusMinus, SubBlocks(nfy(f))), x3x1)
               ELSE <<>>
        [] sec = "x2x3edges" ->
             IF f.three_d
               THEN Args(Loop3(PlusMinus, PlusMinus, SubBlocks(nfx(f))), x2x3)
               ELSE <<>>
        [] sec = "corners" ->
             IF f.three_d
               THEN Args(Loop3(PlusMinus, PlusMinus, PlusMinus), crn)
               ELSE <<>>

\* the loop nests in the order of the source
Sections ==
  <<"x1faces", "x2faces", "x1x2edges", "x3faces", "x3x1edges", "x2x3edges",
    "corners">>

\* the position after pass k of loop nest s: the next pass of the nest, or
\* the first pass of the next nest that has one, or the return
AfterPass(f, s, k) ==
  IF k < Len(CallsOf(f, Sections[s])) THEN [sec |-> s, k |-> k + 1]
  ELSE LET rest == {s2 \in (s + 1) .. Len(Sections) :
                      Len(CallsOf(f, Sections[s2])) > 0}
       IN  IF rest = {} THEN [sec |-> Len(Sections) + 1, k |-> 1]
           ELSE [sec |-> CHOOSE s2 \in rest : \A s3 \in rest : s2 <= s3, k |-> 1]

\* a buffer nothing was done to
FreshBufferSizesUnset ==
  [indices |-> 0, buffers |-> 0,
   isame_ndat |-> 0 - 1, icoar_ndat |-> 0 - 1, ifine_ndat |-> 0 - 1,
   iflux_ndat |-> 0 - 1]

\* a buffer as the constructor leaves it: no call made on it, data sizes zero
FreshBuffer ==
  [indices |-> 0, buffers |-> 0,
   isame_ndat |-> 0, icoar_ndat |-> 0, ifine_ndat |-> 0, iflux_ndat |-> 0]

\* the data sizes InitSendIndices / InitRecvIndices store for a slot: the
\* cell counts of its index ranges, here of one cell
IndicesNdat(b) == [b EXCEPT !.isame_ndat = 1, !.icoar_ndat = 1, !.ifine_ndat = 1]

\* InitSendIndices(send_buf[indx], ...); InitRecvIndices(recv_buf[indx], ...);
\* send_buf[indx].AllocateBuffers(nmb, nvar);
\* recv_buf[indx].AllocateBuffers(nmb, nvar);
InitOneBuffer(buf, indx) ==
  [buf EXCEPT ![indx] = [IndicesNdat(@) EXCEPT !.indices = @ + 1,
                                               !.buffers = @ + 1]]

\* if (!strictly_periodic) {Kokkos::realloc(u_in, ...); realloc(b_in, ...);}
InitializeBuffers ==
  /\ ib_pc = [sec |-> 0, k |-> 1]
  /\ u_in' = IF pmesh.strictly_periodic THEN u_in ELSE "allocated"
  /\ ib_pc' = [sec |-> 1, k |-> 1]
  /\ UNCHANGED <<topo, pmesh, send_buf, recv_buf>>
  /\ UNCHANGED <<bvars, ovars, kvars, fvars, xvars>>

\* one pass of the loop nest `sec'
InitBuffersOf(sec) ==
  /\ ib_pc.sec \in 1 .. Len(Sections)
  /\ Sections[ib_pc.sec] = sec
  /\ LET c == CallsOf(pmesh, sec)[ib_pc.k]
         indx == NeighborIndx(c[1], c[2], c[3], c[4], c[5])
     IN  /\ indx \in Slots
         /\ send_buf' = InitOneBuffer(send_buf, indx)
         /\ recv_buf' = InitOneBuffer(recv_buf, indx)
  /\ ib_pc' = AfterPass(pmesh, ib_pc.sec, ib_pc.k)
  /\ UNCHANGED <<topo, pmesh, u_in>>
  /\ UNCHANGED <<bvars, ovars, kvars, fvars, xvars>>

InitX1Faces == InitBuffersOf("x1faces")
InitX2Faces == InitBuffersOf("x2faces")
InitX1X2Edges == InitBuffersOf("x1x2edges")
InitX3Faces == InitBuffersOf("x3faces")
InitX3X1Edges == InitBuffersOf("x3x1edges")
InitX2X3Edges == InitBuffersOf("x2x3edges")
InitCorners == InitBuffersOf("corners")

\* InitializeBuffers is not running
BuffersIdle ==
  /\ pmesh = [strictly_periodic |-> TRUE, multilevel |-> FALSE,
              multi_d |-> TRUE, three_d |-> TRUE]
  /\ ib_pc = [sec |-> Len(Sections) + 1, k |-> 1]
  /\ u_in = "unallocated"
  /\ send_buf = [n \in Slots |-> FreshBuffer]
  /\ recv_buf = [n \in Slots |-> FreshBuffer]

\* ------------- the kernel and the CT updates of RecvAndUnpackFC_Orb, by cell
\* a block of one interior cell per direction with one ghost cell:
\* is = js = ks = ie = je = ke
FcIndcs == [ng |-> 1, nx2 |-> 1, maxjshift |-> 1]

FcLo == js(FcIndcs)
FcHi == je(FcIndcs)
FcCells == 0 .. (ncells2(FcIndcs) - 1)

\* the indices (k, j, i) of the arrays of a block
FcIdx == FcCells \X FcCells \X FcCells

\* lengths are in half cell widths: the cells are dx1 = dx2 = 2 wide and the
\* block starts at x1min
FcDx1 == 2
FcDx2 == 2
FcX1min == 0
FcQomDt == 1        \* qom*dt of the call

\* CellCenterX(i-is, nx1, x1min, x1max) and LeftEdgeX(i-is, nx1, x1min, x1max)
CellCenterX(i) == FcX1min + FcDx1 * (i - FcLo) + (FcDx1 \div 2)
LeftEdgeX(i) == FcX1min + FcDx1 * (i - FcLo)

\* the x1 the two branches compute for component v at i: each is the
\* initialiser of a variable x1 declared inside its branch
FcX1Branch(v, i) == IF v = 0 THEN CellCenterX(i) ELSE LeftEdgeX(i)

\* Real yshear = -qom*x1*dt; int joffset = static_cast<int>(yshear/dx2);
FcJOffsetOf(x1) == StaticCastInt(0 - FcQomDt * x1, FcDx2)

\* Real x1; is declared before the branches and never assigned: what yshear
\* reads is any value (those whose shift the buffers are sized for)
MaxX1 == 2
FcX1Unset == {x \in (0 - MaxX1) .. MaxX1 : FcJOffsetOf(x) \in JOffsets(FcIndcs)}

FcJOffset(in) == FcJOffsetOf(in.x1)

\* the values of a call: the mesh is 1D, 2D or 3D; x1 is the value yshear
\* reads; flx(j) of the line (v = 0, k, i) is flxx[k] and that of the line
\* (v = 1, k, i) is flxz[i]; u0_(j) is u0v; efld.x1e and efld.x3e hold
\* stalex[k] and stalez[i] from earlier calls; b0 is the uniform field bval
FcInputs ==
  [x1 : FcX1Unset,
   flxx : [FcLo .. (FcHi + 1) -> {0, 1}],
   flxz : [FcLo .. (FcHi + 1) -> {0, 1}],
   stalex : [FcLo .. (FcHi + 1) -> {0, 1}],
   stalez : [FcLo .. (FcHi + 1) -> {0, 1}],
   u0v : {0, 1},
   bval : {0, 1}]

\* the j written by par_for_inner(member, js, je, ...)
EmfAssigned == FcLo .. FcHi

\* the change of the effective EMF at j by the sums over the integer offset:
\* for (j=1; j<=joffset; j++) -= u0_(j); for (j=joffset+1; j<=0; j++) += u0_(j)
EmfOffsetSum(in, j) ==
  IF 1 <= j /\ j <= FcJOffset(in) THEN 0 - in.u0v
  ELSE IF FcJOffset(in) + 1 <= j /\ j <= 0 THEN in.u0v
  ELSE 0

\* oa-unB for v = 0: emfx(m,k,j,i) = -flx(j), then the sums
EmfxAfter(in, old) ==
  [p \in FcIdx |->
     IF p[1] \in FcLo .. (FcHi + 1) /\ p[3] \in FcLo .. (FcHi + 1)
       THEN (IF p[2] \in EmfAssigned THEN 0 - in.flxx[p[1]] ELSE old[p])
              + EmfOffsetSum(in, p[2])
       ELSE old[p]]

\* oa-unB for v = 1: emfz(m,k,j,i) = flx(j), then the sums
EmfzAfter(in, old) ==
  [p \in FcIdx |->
     IF p[1] \in FcLo .. (FcHi + 1) /\ p[3] \in FcLo .. (FcHi + 1)
       THEN (IF p[2] \in EmfAssigned THEN in.flxz[p[3]] ELSE old[p])
              - EmfOffsetSum(in, p[2])
       ELSE old[p]]

\* the elements of efld.x1e / efld.x3e the kernel assigned in this call
EmfNew ==
  {p \in FcIdx : /\ p[1] \in FcLo .. (FcHi + 1)
                 /\ p[2] \in EmfAssigned
                 /\ p[3] \in FcLo .. (FcHi + 1)}

OaUnB ==
  /\ fcpc = "oa-unB"
  /\ emfx' = EmfxAfter(fcin, emfx)
  /\ emfz' = EmfzAfter(fcin, emfz)
  /\ emf_new' = [x |-> EmfNew, z |-> EmfNew]
  /\ fcpc' = "oaCT"
  /\ UNCHANGED <<topo, fcin, b0, emf_read, pmesh, ib_pc, u_in, send_buf, recv_buf>>
  /\ UNCHANGED <<bvars, ovars, kvars, xvars>>

\* oaCT-b1: b0.x1f(m,k,j,i) -= (emfz(m,k,j+1,i) - emfz(m,k,j,i))
CTb1(f, ez, p) ==
  IF f.multi_d /\ p[1] \in FcLo .. FcHi /\ p[2] \in FcLo .. FcHi
     /\ p[3] \in FcLo .. (FcHi + 1)
    THEN 0 - (ez[<<p[1], p[2] + 1, p[3]>>] - ez[p])
    ELSE 0

\* oaCT-b2: b0.x2f += dydx*(emfz(m,k,j,i+1) - emfz(m,k,j,i)), and in 3D
\* b0.x2f -= dydz*(emfx(m,k+1,j,i) - emfx(m,k,j,i)); dx1 = dx2 = dx3 here
CTb2(f, ex, ez, p) ==
  IF p[1] \in FcLo .. FcHi /\ p[2] \in FcLo .. (FcHi + 1) /\ p[3] \in FcLo .. FcHi
    THEN (ez[<<p[1], p[2], p[3] + 1>>] - ez[p])
         - (IF f.three_d THEN ex[<<p[1] + 1, p[2], p[3]>>] - ex[p] ELSE 0)
    ELSE 0

\* oaCT-b3: b0.x3f(m,k,j,i) += (emfx(m,k,j+1,i) - emfx(m,k,j,i))
CTb3(f, ex, p) ==
  IF f.multi_d /\ p[1] \in FcLo .. (FcHi + 1) /\ p[2] \in FcLo .. FcHi
     /\ p[3] \in FcLo .. FcHi
    THEN ex[<<p[1], p[2] + 1, p[3]>>] - ex[p]
    ELSE 0

\* the elements of emfx (emfz) the three updates read
CTReadsX(f) ==
  UNION {{p, <<p[1] + 1, p[2], p[3]>>} :
           p \in {q \in FcIdx : /\ f.three_d /\ q[1] \in FcLo .. FcHi
                                /\ q[2] \in FcLo .. (FcHi + 1)
                                /\ q[3] \in FcLo .. FcHi}}
  \cup UNION {{p, <<p[1], p[2] + 1, p[3]>>} :
           p \in {q \in FcIdx : /\ f.multi_d /\ q[1] \in FcLo .. (FcHi + 1)
                                /\ q[2] \in FcLo .. FcHi
                                /\ q[3] \in FcLo .. FcHi}}

CTReadsZ(f) ==
  UNION {{p, <<p[1], p[2] + 1, p[3]>>} :
           p \in {q \in FcIdx : /\ f.multi_d /\ q[1] \in FcLo .. FcHi
                                /\ q[2] \in FcLo .. FcHi
                                /\ q[3] \in FcLo .. (FcHi + 1)}}
  \cup UNION {{p, <<p[1], p[2], p[3] + 1>>} :
           p \in {q \in FcIdx : /\ q[1] \in FcLo .. FcHi
                                /\ q[2] \in FcLo .. (FcHi + 1)
                                /\ q[3] \in FcLo .. FcHi}}

OaCT ==
  /\ fcpc = "oaCT"
  /\ b0' = [x1f |-> [p \in FcIdx |-> b0.x1f[p] + CTb1(pmesh, emfz, p)],
            x2f |-> [p \in FcIdx |-> b0.x2f[p] + CTb2(pmesh, emfx, emfz, p)],
            x3f |-> [p \in FcIdx |-> b0.x3f[p] + CTb3(pmesh, emfx, p)]]
  /\ emf_read' = [x |-> CTReadsX(pmesh), z |-> CTReadsZ(pmesh)]
  /\ fcpc' = "done"
  /\ UNCHANGED <<topo, fcin, emfx, emfz, emf_new, pmesh, ib_pc, u_in, send_buf, recv_buf>>
  /\ UNCHANGED <<bvars, ovars, kvars, xvars>>

\* the discrete divergence of b0 in the interior cell (k, j, i) of a 1D, 2D
\* or 3D mesh, with cells of width one
Divergence(f, b, p) ==
  (b.x1f[<<p[1], p[2], p[3] + 1>>] - b.x1f[p])
  + (IF f.multi_d THEN b.x2f[<<p[1], p[2] + 1, p[3]>>] - b.x2f[p] ELSE 0)
  + (IF f.three_d THEN b.x3f[<<p[1] + 1, p[2], p[3]>>] - b.x3f[p] ELSE 0)

FcInterior == (FcLo .. FcHi) \X (FcLo .. FcHi) \X (FcLo .. FcHi)

\* RecvAndUnpackFC_Orb is not running
FcIdle ==
  /\ fcpc = "idle"
  /\ fcin = <<>>
  /\ emfx = <<>> /\ emfz = <<>>
  /\ emf_new = [x |-> {}, z |-> {}]
  /\ emf_read = [x |-> {}, z |-> {}]
  /\ b0 = <<>>

\* ----------------- the element count of a receive of BoundaryValues::InitRecv
MaxNvars == 2
MaxNdat == 3
MaxLev == 2

\* recv_buf[n] after InitializeBuffers: the data sizes InitRecvIndices stored,
\* and the capacity recv_buf[n].AllocateBuffers(nmb, nvar) gave block m, nvar
\* times the largest of the three sizes
AllocatedBuffers ==
  {b \in [nvar : 1 .. MaxNvars, isame_ndat : 1 .. MaxNdat,
          icoar_ndat : 1 .. MaxNdat, ifine_ndat : 1 .. MaxNdat,
          capacity : 1 .. (MaxNvars * MaxNdat)] :
     \E big \in {b.isame_ndat, b.icoar_ndat, b.ifine_ndat} :
        /\ big >= b.isame_ndat /\ big >= b.icoar_ndat /\ big >= b.ifine_ndat
        /\ b.capacity = b.nvar * big}

\* nghbr.h_view(m,n).lev and mblev.h_view(m)
Levels == [nghbr : 0 .. MaxLev, mb : 0 .. MaxLev]

DataSizeCoarseFineSwapped(nvars, lev, buf) ==
  IF lev.nghbr < lev.mb THEN nvars * buf.ifine_ndat
  ELSE IF lev.nghbr = lev.mb THEN nvars * buf.isame_ndat
  ELSE nvars * buf.icoar_ndat

\* int data_size = nvars; if (nghbr.lev < mblev) {data_size *= icoar_ndat;}
\* else if (nghbr.lev == mblev) {data_size *= isame_ndat;}
\* else {data_size *= ifine_ndat;}
DataSize(nvars, lev, buf) ==
  IF lev.nghbr < lev.mb THEN nvars * buf.icoar_ndat
  ELSE IF lev.nghbr = lev.mb THEN nvars * buf.isame_ndat
  ELSE nvars * buf.ifine_ndat

\* InitRecv(nvars) for one (m, n) whose neighbour is on another rank: the
\* count handed to MPI_Irecv
InitRecvSize ==
  /\ szpc = "InitRecv"
  /\ data_size' = DataSize(szbuf.nvar, szlev, szbuf)
  /\ szcalls' = szcalls + 1
  /\ szpc' = "posted"
  /\ UNCHANGED <<topo, szbuf, szlev>>
  /\ UNCHANGED <<pkvars, rcvars, rkvars>>
  /\ UNCHANGED <<bvars, ovars, kvars, ivars, fvars>>

\* the mesh is refined or derefined between two exchanges
MaxSzCalls == 2

Regrid ==
  /\ szpc = "posted"
  /\ szcalls < MaxSzCalls
  /\ szlev' \in Levels
  /\ szpc' = "InitRecv"
  /\ UNCHANGED <<topo, szbuf, data_size, szcalls>>
  /\ UNCHANGED <<pkvars, rcvars, rkvars>>
  /\ UNCHANGED <<bvars, ovars, kvars, ivars, fvars>>

\* no receive size is being computed
SizeIdle ==
  /\ szpc = "idle"
  /\ szbuf = <<>>
  /\ szlev = [nghbr |-> 0, mb |-> 0]
  /\ data_size = 0
  /\ szcalls = 0

\* ------------- the index arithmetic of the kernel oa-pack, team by team
MaxNx == 2

\* the mesh indices and the number of variables of a call
PackInputs ==
  {in \in [ng : 1 .. MaxNg, maxjshift : 1 .. MaxJShift,
           nx2 : 2 .. (MaxNg + MaxJShift + 1),
           nx1 : 1 .. MaxNx, nx3 : 1 .. MaxNx, nvar : 1 .. MaxNvars] :
     in.nx2 \in {in.ng + in.maxjshift, in.ng + in.maxjshift + 1}}

is(in) == in.ng
ie(in) == in.ng + in.nx1 - 1
ks(in) == in.ng
ke(in) == in.ng + in.nx3 - 1

\* int nmnv = nmb*2*nvar;
nmnv(t, r, in) == nmb_thispack(t, r) * 2 * in.nvar

\* m = league_rank/(2*nvar); n = (league_rank - m*(2*nvar))/nvar;
\* v = league_rank - m*(2*nvar) - n*nvar
LeagueM(in, lr) == lr \div (2 * in.nvar)
LeagueN(in, lr) == (lr - LeagueM(in, lr) * (2 * in.nvar)) \div in.nvar
LeagueV(in, lr) == lr - LeagueM(in, lr) * (2 * in.nvar) - LeagueN(in, lr) * in.nvar

\* ni = iu - il + 1; nj = ju - jl + 1; nk = ku - kl + 1
PackNi(in) == ie(in) - is(in) + 1
PackNj(in, n) == OaJu(in, n) - OaJl(in, n) + 1
PackNk(in) == ke(in) - ks(in) + 1

IdxJDividedByNj(in, n, idx) ==
  LET nji == PackNj(in, n) * PackNi(in)
  IN  (idx - (idx \div nji) * nji) \div PackNj(in, n) + OaJl(in, n)

\* k = idx/nji; j = (idx - k*nji)/ni; i = (idx - k*nji - j*ni) + il;
\* k += kl; j += jl
IdxK(in, n, idx) == idx \div (PackNj(in, n) * PackNi(in)) + ks(in)
IdxJ(in, n, idx) ==
  LET nji == PackNj(in, n) * PackNi(in)
  IN  (idx - (idx \div nji) * nji) \div PackNi(in) + OaJl(in, n)
IdxI(in, n, idx) ==
  LET nji == PackNj(in, n) * PackNi(in)
      k == idx \div nji
      j == (idx - k * nji) \div PackNi(in)
  IN  (idx - k * nji - j * PackNi(in)) + is(in)

\* the copy a thread makes for idx: the cell of a it reads and the buffer
\* element it writes, rbuf[dn].vars(dm,v,k-kl,j-jl,i-il) when the neighbour
\* is on this rank and sbuf[n].vars(m,v,k-kl,j-jl,i-il) when it is not
PackCopy(t, r, in, lr, idx) ==
  LET m == LeagueM(in, lr)
      n == LeagueN(in, lr)
      v == LeagueV(in, lr)
      k == IdxK(in, n, idx)
      j == IdxJ(in, n, idx)
      i == IdxI(in, n, idx)
      off == <<v, k - ks(in), j - OaJl(in, n), i - is(in)>>
  IN  [src |-> [m |-> m, n |-> n, v |-> v, k |-> k, j |-> j, i |-> i],
       dst |-> IF nghbr(t, r, m, OrbSlot(n)).rank = r
                 THEN [buf |-> "rbuf", b |-> OaDestBuf(n),
                       m |-> OaDestBlock(t, r, m, n), off |-> off]
                 ELSE [buf |-> "sbuf", b |-> n, m |-> m, off |-> off]]

\* the copies of the team with league rank lr, by idx in [0, nkji); none when
\* the neighbour does not exist
TeamCopies(t, r, in, lr) ==
  IF nghbr(t, r, LeagueM(in, lr), OrbSlot(LeagueN(in, lr))).gid >= 0
    THEN [idx \in 0 .. (PackNk(in) * PackNj(in, LeagueN(in, lr)) * PackNi(in) - 1)
            |-> PackCopy(t, r, in, lr, idx)]
    ELSE <<>>

\* the number of times each copy was made, after the copies f are added
AddCopies(cnt, f) ==
  [c \in DOMAIN cnt \cup {f[x] : x \in DOMAIN f} |->
     (IF c \in DOMAIN cnt THEN cnt[c] ELSE 0)
       + Cardinality({x \in DOMAIN f : f[x] = c})]

\* one team of the league of oa-pack
OaPackTeam ==
  /\ pkpc = "oa-pack"
  /\ league < nmnv(topo, pkrank, pkin)
  /\ pkcopies' = AddCopies(pkcopies, TeamCopies(topo, pkrank, pkin, league))
  /\ pkteams' = pkteams \cup {<<LeagueM(pkin, league), LeagueN(pkin, league),
                                LeagueV(pkin, league)>>}
  /\ league' = league + 1
  /\ pkpc' = IF league + 1 = nmnv(topo, pkrank, pkin) THEN "send" ELSE "oa-pack"
  /\ UNCHANGED <<topo, pkin, pkrank>>
  /\ UNCHANGED <<szvars, rcvars, rkvars>>
  /\ UNCHANGED <<bvars, ovars, kvars, ivars, fvars>>

\* the host loop after the fence: one MPI_Isend for each x2 face of each block
\* with its neighbour on another rank; an error of a send ends the process
OaPackSend ==
  /\ pkpc = "send"
  /\ LET sends == OrbSendSeq(topo, pkrank, "vars", 0)
     IN  \E err \in {x \in BOOLEAN : x => sends # <<>>} :
           /\ onet' = [onet EXCEPT ![pkrank] = IF err THEN @ ELSE @ \o sends]
           /\ pkpc' = IF err THEN "exited" ELSE "done"
  /\ UNCHANGED <<topo, pkin, pkrank, league, pkcopies, pkteams>>
  /\ UNCHANGED <<opc, ostage, orb_rreq, orq, olast, orb_buf>>
  /\ UNCHANGED <<szvars, rcvars, rkvars>>
  /\ UNCHANGED <<bvars, kvars, ivars, fvars>>

\* the kernel oa-pack is not running
PackIdle ==
  /\ pkpc = "idle"
  /\ pkin = <<>>
  /\ pkrank = 0
  /\ league = 0
  /\ pkcopies = <<>>
  /\ pkteams = {}

\* ------- the threads of the teams of the kernel oa-unpk and their barriers
NThreads == 2
NTeams == 2

Threads == 0 .. (NThreads - 1)
Teams == 0 .. (NTeams - 1)

\* the j of lo..hi a thread of the team works on (TeamThreadRange)
ThreadShare(th, lo, hi) == {j \in lo .. hi : (j - lo) % NThreads = th}

\* the steps of a team between barriers: the load of u0_, the fluxes, the
\* update of u0
Phases == <<"load", "flux", "update">>

TeamBarrierNone(pc, l, p) == TRUE

\* member.team_barrier(): a thread goes on to step p only after every thread
\* of its team has finished step p - 1
TeamBarrier(pc, l, p) == \A th \in Threads : pc[<<l, th>>] >= p - 1

\* the meshes and shifts of a call
RaceInputs ==
  {in \in [ng : 1 .. MaxNg, maxjshift : 1 .. MaxJShift,
           nx2 : 2 .. (MaxNg + MaxJShift + 1), joffset : (0 - MaxJShift) .. MaxJShift] :
     /\ in.nx2 = in.ng + in.maxjshift
     /\ in.joffset \in JOffsets(in)}

\* the elements u0(m,n,k,j,i) the load of jj reads: none when it reads a
\* receive buffer
LoadReadsU0(in, l, jj) ==
  IF OaUnpkSource(in, jj, in.joffset).from = "u0"
    THEN {<<l, OaUnpkSource(in, jj, in.joffset).idx>>}
    ELSE {}

\* the accesses of thread th of team l in step p, made out of order:
\*  a load that reads an element of u0 an update has written,
\*  a flux that reads an element of u0_ no load has written,
\*  an update that reads an element of u0_ or flx not yet written
OutOfOrder(in, l, th, p, ld, fx, wr) ==
  IF Phases[p] = "load"
    THEN {[step |-> "load", elem |-> e] :
            e \in {x \in UNION {LoadReadsU0(in, l, jj) :
                                  jj \in ThreadShare(th, 0, ncells2(in) - 1)} :
                     x \in wr}}
  ELSE IF Phases[p] = "flux"
    THEN {[step |-> "flux", elem |-> e] :
            e \in {x \in UNION {{<<l, j - 1>>, <<l, j>>} :
                                  j \in ThreadShare(th, js(in), je(in) + 1)} :
                     x \notin ld}}
  ELSE {[step |-> "update", elem |-> e] :
          e \in {x \in UNION {{<<l, j>>} : j \in ThreadShare(th, js(in), je(in))} :
                   x \notin ld \/ x \notin fx}
                \cup {x \in UNION {{<<l, j + 1>>} :
                                     j \in ThreadShare(th, js(in), je(in))} :
                        x \notin fx}}

\* thread th of team l runs its share of the next step of the team
TeamThreadStep ==
  /\ rcpc # <<>>
  /\ \E l \in Teams : \E th \in Threads :
       LET p == rcpc[<<l, th>>] + 1
       IN  /\ p <= Len(Phases)
           /\ TeamBarrier(rcpc, l, p)
           /\ rcbad' = rcbad \cup OutOfOrder(rcin, l, th, p, rcld, rcfx, rcwr)
           /\ rcld' = IF Phases[p] = "load"
                        THEN rcld \cup {<<l, jj>> :
                               jj \in ThreadShare(th, 0, ncells2(rcin) - 1)}
                        ELSE rcld
           /\ rcfx' = IF Phases[p] = "flux"
                        THEN rcfx \cup {<<l, j>> :
                               j \in ThreadShare(th, js(rcin), je(rcin) + 1)}
                        ELSE rcfx
           /\ rcwr' = IF Phases[p] = "update"
                        THEN rcwr \cup {<<l, j>> :
                               j \in ThreadShare(th, js(rcin), je(rcin))}
                        ELSE rcwr
           /\ rcpc' = [rcpc EXCEPT ![<<l, th>>] = p]
  /\ UNCHANGED <<topo, rcin>>
  /\ UNCHANGED <<szvars, pkvars, rkvars>>
  /\ UNCHANGED <<bvars, ovars, kvars, ivars, fvars>>

\* no team of oa-unpk is running
RaceIdle ==
  /\ rcpc = <<>>
  /\ rcin = <<>>
  /\ rcld = {} /\ rcfx = {} /\ rcwr = {}
  /\ rcbad = {}

\* ------------------------------------------ RadiationFEMN::ExpRKUpdate
MaxNmb == 2         \* largest nmb_thispack
MaxSpecies == 2     \* largest num_species
MaxBins == 2        \* largest num_energy_bins
MaxPoints == 2      \* largest num_points
MaxRkNx == 2        \* largest number of cells of a block in a direction
MaxRkStage == 2     \* stages of the integrator

\* the sizes of a call; the pack has at least one block and one cell
RkInputs ==
  [nmb : 1 .. MaxNmb, num_species : 0 .. MaxSpecies, num_energy_bins : 1 .. MaxBins,
   num_points : 1 .. MaxPoints, nx1 : 1 .. MaxRkNx, nx2 : 1 .. MaxRkNx,
   stage : 1 .. MaxRkStage]

\* int num_species_energy = num_species_ * num_energy_bins_;
num_species_energy(in) == in.num_species * in.num_energy_bins

\* par_for_outer(..., 0, nmb1, 0, num_species_energy - 1, ks, ke, js, je, is, ie, ...)
RkTeams(in) ==
  (0 .. (in.nmb - 1)) \X (0 .. (num_species_energy(in) - 1))
    \X {0} \X (0 .. (in.nx2 - 1)) \X (0 .. (in.nx1 - 1))

\* int nu = int(nuen / num_energy_bins_); int en = nuen - nu * num_energy_bins_;
RkNu(in, nuen) == nuen \div in.num_energy_bins
RkEn(in, nuen) == nuen - RkNu(in, nuen) * in.num_energy_bins

\* IndicesUnited(nu, en, idx, num_species_, num_energy_bins_, num_points_)
IndicesUnited(nu, en, idx, ns, ne, np) == (nu * ne + en) * np + idx

\* the statements of the body of the kernel, in the order of the source
RkBody == <<"g_rhs", "derivatives", "Gamma_fluid", "print", "exit",
            "F_Gamma", "K", "Q_matrix", "LUInv", "f0">>

\* the statements a team runs: those before the first exit(EXIT_FAILURE)
RkRuns ==
  LET ex == {n \in DOMAIN RkBody : RkBody[n] = "exit"}
  IN  {RkBody[n] : n \in {x \in DOMAIN RkBody : \A e \in ex : x < e}}

\* the team reaches exit(EXIT_FAILURE)
RkExits == "exit" \in {RkBody[n] : n \in DOMAIN RkBody}

\* f0_(m, unifiedidx, k, j, i) = final_result for idx in [0, num_points_ - 1]
RkWrites(in, t) ==
  IF "f0" \in RkRuns
    THEN {<<t[1], IndicesUnited(RkNu(in, t[2]), RkEn(in, t[2]), idx, in.num_species,
                                in.num_energy_bins, in.num_points), t[3], t[4], t[5]>> :
            idx \in 0 .. (in.num_points - 1)}
    ELSE {}

\* one team of the kernel radiation_femn_update
ExpRKTeam ==
  /\ rkpc = "kernel"
  /\ \E t \in RkTeams(rkin) \ rkran :
       /\ rkf0' = rkf0 \cup RkWrites(rkin, t)
       /\ rkran' = IF RkExits THEN rkran ELSE rkran \cup {t}
       /\ rkpc' = IF RkExits THEN "exited" ELSE "kernel"
  /\ UNCHANGED <<topo, rkin>>
  /\ UNCHANGED <<szvars, pkvars, rcvars>>
  /\ UNCHANGED <<bvars, ovars, kvars, ivars, fvars>>

\* return TaskStatus::complete; after every team has run
ExpRKReturn ==
  /\ rkpc = "kernel"
  /\ rkran = RkTeams(rkin)
  /\ rkpc' = "complete"
  /\ UNCHANGED <<topo, rkin, rkran, rkf0>>
  /\ UNCHANGED <<szvars, pkvars, rcvars>>
  /\ UNCHANGED <<bvars, ovars, kvars, ivars, fvars>>

\* ExpRKUpdate is not running
RkIdle ==
  /\ rkpc = "idle"
  /\ rkin = <<>>
  /\ rkran = {}
  /\ rkf0 = {}

ExtraIdle == SizeIdle /\ PackIdle /\ RaceIdle /\ RkIdle

\* ---------------------------------------------------------- specification
BvalsInit ==
  /\ bpc = [r \in Ranks(topo) |-> "InitRecv"]
  /\ stage = [r \in Ranks(topo) |-> 0]
  /\ recv_vars_stat = [r \in Ranks(topo) |-> CtorStat(topo, r)]
  /\ recv_vars_req = [r \in Ranks(topo) |-> CtorReq(topo, r)]
  /\ send_vars_req = [r \in Ranks(topo) |-> CtorReq(topo, r)]
  /\ send_vars_stat = [r \in Ranks(topo) |-> CtorStat(topo, r)]
  /\ flux_stat = [r \in Ranks(topo) |->
                   [send |-> CtorStat(topo, r), recv |-> CtorStat(topo, r)]]
  /\ flux_req = [r \in Ranks(topo) |->
                  [send |-> CtorReq(topo, r), recv |-> CtorReq(topo, r)]]
  /\ vars_comm = [r \in Ranks(topo) |-> CtorComms(r).vars_comm]
  /\ flux_comm = [r \in Ranks(topo) |-> CtorComms(r).flux_comm]
  /\ net = {}
  /\ last = [r \in Ranks(topo) |-> NoCall]

Init == topo \in Topologies /\ BvalsInit /\ OrbInit /\ KernelIdle /\ BuffersIdle /\ FcIdle /\ ExtraIdle

Next ==
  \/ \E r \in Ranks(topo) : InitRecv(r)
  \/ \E r \in Ranks(topo) : PackAndSend(r)
  \/ Deliver
  \/ \E r \in Ranks(topo) : ClearRecv(r)
  \/ \E r \in Ranks(topo) : ClearSend(r)

Spec == Init /\ [][Next]_vars

\* every rank keeps running its tasks and the transport delivers every
\* message that has a matching receive
SpecLive == Init /\ [][Next]_vars /\ WF_vars(Next)

NextOrb ==
  \/ \E r \in Ranks(topo) : InitRecvOrb(r)
  \/ \E r \in Ranks(topo) : PackAndSendCC_Orb(r)
  \/ \E r \in Ranks(topo) : RecvAndUnpackCC_Orb(r)
  \/ \E r \in Ranks(topo) : PackAndSendFC_Orb(r)
  \/ \E r \in Ranks(topo) : RecvAndUnpackFC_Orb(r)
  \/ DeliverOrb

SpecOrb == Init /\ [][NextOrb]_vars

\* the kernels of one rank on the mesh indices of a run
InitKernel ==
  /\ topo \in Topologies
  /\ BvalsInit /\ OrbInit
  /\ kin \in KernelInputs
  /\ krank \in Ranks(topo)
  /\ kpc = "pack"
  /\ krbuf = {}
  /\ kgather = [joffset |-> 0, u0_ |-> <<>>, src |-> <<>>]
  /\ kshear \in ShearInputs(kin)
  /\ kout = <<>>
  /\ ksum = [r \in Ranks(topo) |-> NotRun]
  /\ BuffersIdle /\ FcIdle /\ ExtraIdle

NextKernel == OaPack \/ OaUnpk \/ OaNextRank

SpecKernel == InitKernel /\ [][NextKernel]_vars

\* both exchanges of a rank one after the other: the orbital exchange of a
\* rank starts when its BoundaryValues stages are done
NextBoth ==
  \/ \E r \in Ranks(topo) : InitRecv(r)
  \/ \E r \in Ranks(topo) : PackAndSend(r)
  \/ Deliver
  \/ \E r \in Ranks(topo) : ClearRecv(r)
  \/ \E r \in Ranks(topo) : ClearSend(r)
  \/ \E r \in Ranks(topo) : bpc[r] = "done" /\ InitRecvOrb(r)
  \/ \E r \in Ranks(topo) : bpc[r] = "done" /\ PackAndSendCC_Orb(r)
  \/ \E r \in Ranks(topo) : bpc[r] = "done" /\ RecvAndUnpackCC_Orb(r)
  \/ \E r \in Ranks(topo) : bpc[r] = "done" /\ PackAndSendFC_Orb(r)
  \/ \E r \in Ranks(topo) : bpc[r] = "done" /\ RecvAndUnpackFC_Orb(r)
  \/ DeliverOrb

SpecBoth == Init /\ [][NextBoth]_vars

\* the orbital exchange over one stage more, on the meshes whose x2-face
\* neighbours are on two ranks
InitOrbStages ==
  /\ topo \in {t \in Topologies : t.ring = "x2" /\ t.other = "none" /\ t.nranks = 2}
  /\ BvalsInit /\ OrbInit /\ KernelIdle /\ BuffersIdle /\ FcIdle /\ ExtraIdle

NextOrbStages ==
  \/ \E r \in Ranks(topo) : InitRecvOrb(r)
  \/ \E r \in Ranks(topo) : PackAndSendCC_Orb(r)
  \/ \E r \in Ranks(topo) : RecvAndUnpackCC_Orb(r)
  \/ \E r \in Ranks(topo) : PackAndSendFC_Orb(r)
  \/ \E r \in Ranks(topo) : RecvAndUnpackFC_OrbOf(r, MaxOrbStage + 1)
  \/ DeliverOrb

SpecOrbStages == InitOrbStages /\ [][NextOrbStages]_vars

\* InitializeBuffers of one BoundaryValues object on every kind of mesh
InitBuffers ==
  /\ topo = [ring |-> "x2", other |-> "none", nranks |-> 1]
  /\ BvalsInit /\ OrbInit /\ KernelIdle /\ FcIdle /\ ExtraIdle
  /\ pmesh \in MeshFlags
  /\ ib_pc = [sec |-> 0, k |-> 1]
  /\ u_in = "unallocated"
  /\ send_buf = [n \in Slots |-> FreshBuffer]
  /\ recv_buf = [n \in Slots |-> FreshBuffer]

NextBuffers ==
  \/ InitializeBuffers
  \/ InitX1Faces
  \/ InitX2Faces
  \/ InitX1X2Edges
  \/ InitX3Faces
  \/ InitX3X1Edges
  \/ InitX2X3Edges
  \/ InitCorners

SpecBuffers == InitBuffers /\ [][NextBuffers]_vars

\* step 2 of RecvAndUnpackFC_Orb on one block
InitKernelFC ==
  /\ topo = [ring |-> "x2", other |-> "none", nranks |-> 1]
  /\ BvalsInit /\ OrbInit /\ KernelIdle /\ ExtraIdle
  /\ pmesh \in {f \in MeshFlags : f.strictly_periodic /\ ~f.multilevel}
  /\ ib_pc = [sec |-> Len(Sections) + 1, k |-> 1]
  /\ u_in = "unallocated"
  /\ send_buf = [n \in Slots |-> FreshBuffer]
  /\ recv_buf = [n \in Slots |-> FreshBuffer]
  /\ fcpc = "oa-unB"
  /\ fcin \in FcInputs
  /\ emfx = [p \in FcIdx |->
               IF p[1] \in FcLo .. (FcHi + 1) THEN fcin.stalex[p[1]] ELSE 0]
  /\ emfz = [p \in FcIdx |->
               IF p[3] \in FcLo .. (FcHi + 1) THEN fcin.stalez[p[3]] ELSE 0]
  /\ emf_new = [x |-> {}, z |-> {}]
  /\ emf_read = [x |-> {}, z |-> {}]
  /\ b0 = [x1f |-> [p \in FcIdx |-> fcin.bval],
           x2f |-> [p \in FcIdx |-> fcin.bval],
           x3f |-> [p \in FcIdx |-> fcin.bval]]

NextKernelFC == OaUnB \/ OaCT

SpecKernelFC == InitKernelFC /\ [][NextKernelFC]_vars

\* InitRecv of one (m, n) between regrids
InitRecvSizes ==
  /\ topo = [ring |-> "x2", other |-> "none", nranks |-> 2]
  /\ BvalsInit /\ OrbInit /\ KernelIdle /\ BuffersIdle /\ FcIdle /\ PackIdle /\ RaceIdle /\ RkIdle
  /\ szpc = "InitRecv"
  /\ szbuf \in AllocatedBuffers
  /\ szlev \in Levels
  /\ data_size = 0
  /\ szcalls = 0

NextRecvSizes == InitRecvSize \/ Regrid

SpecRecvSizes == InitRecvSizes /\ [][NextRecvSizes]_vars

\* the kernel oa-pack on one rank
InitPackIndex ==
  /\ topo \in Topologies
  /\ BvalsInit /\ OrbInit /\ KernelIdle /\ BuffersIdle /\ FcIdle /\ SizeIdle /\ RaceIdle /\ RkIdle
  /\ pkpc = "oa-pack"
  /\ pkin \in PackInputs
  /\ pkrank \in Ranks(topo)
  /\ league = 0
  /\ pkcopies = <<>>
  /\ pkteams = {}

NextPackIndex == OaPackTeam \/ OaPackSend

SpecPackIndex == InitPackIndex /\ [][NextPackIndex]_vars

\* the teams of the kernel oa-unpk on two lines of one block
InitRace ==
  /\ topo = [ring |-> "x2", other |-> "none", nranks |-> 1]
  /\ BvalsInit /\ OrbInit /\ KernelIdle /\ BuffersIdle /\ FcIdle
  /\ SizeIdle /\ PackIdle /\ RkIdle
  /\ rcpc = [x \in Teams \X Threads |-> 0]
  /\ rcin \in RaceInputs
  /\ rcld = {} /\ rcfx = {} /\ rcwr = {}
  /\ rcbad = {}

NextRace == TeamThreadStep

SpecRace == InitRace /\ [][NextRace]_vars

\* one call of ExpRKUpdate on one pack
InitExpRK ==
  /\ topo = [ring |-> "x2", other |-> "none", nranks |-> 1]
  /\ BvalsInit /\ OrbInit /\ KernelIdle /\ BuffersIdle /\ FcIdle
  /\ SizeIdle /\ PackIdle /\ RaceIdle
  /\ rkpc = "kernel"
  /\ rkin \in RkInputs
  /\ rkran = {}
  /\ rkf0 = {}

NextExpRK == ExpRKTeam \/ ExpRKReturn

SpecExpRK == InitExpRK /\ [][NextExpRK]_vars

\* ============================================================== properties
Exists(t, r, m, n) == nghbr(t, r, m, n).gid >= 0
Remote(t, r, m, n) == Exists(t, r, m, n) /\ nghbr(t, r, m, n).rank # r
Local(t, r, m, n) == Exists(t, r, m, n) /\ nghbr(t, r, m, n).rank = r

\* the step in which rank r returns from InitRecv
InitRecvReturns(r) == bpc[r] = "InitRecv" /\ bpc'[r] # "InitRecv"

\* the entries of the registration log of the last call for (m,n)
LogOf(r, m, n) ==
  {i \in DOMAIN last[r].log : last[r].log[i].m = m /\ last[r].log[i].n = n}

\* C2: when InitRecv returns, the receive status of every (block, slot) whose
\* neighbour exists is waiting, on the same rank or on another one, and the
\* status of every slot without a neighbour is what it was before the call.
C2_InitRecvSetsWaiting ==
  [][\A r \in Ranks(topo) : InitRecvReturns(r) =>
       \A m \in MBs(topo, r) : \A n \in Slots :
         IF Exists(topo, r, m, n)
           THEN recv_vars_stat'[r][n][m] = "waiting"
           ELSE recv_vars_stat'[r][n][m] = recv_vars_stat[r][n][m]]_vars

\* InitRecv has returned on a rank that has a same-rank neighbour, a neighbour
\* on another rank (both waiting) and a slot without neighbour (still undef)
C2_Witness ==
  \E r \in Ranks(topo) : \E m \in MBs(topo, r) : \E n1, n2, n3 \in Slots :
    /\ last[r].op = "InitRecv"
    /\ Local(topo, r, m, n1) /\ recv_vars_stat[r][n1][m] = "waiting"
    /\ Remote(topo, r, m, n2) /\ recv_vars_stat[r][n2][m] = "waiting"
    /\ ~Exists(topo, r, m, n3) /\ recv_vars_stat[r][n3][m] = "undef"

\* C3: the receive status moves undef -> waiting -> completed; once the
\* arrival of the data is confirmed (ClearRecv has returned complete) the
\* status of every existing (block, slot) is completed.
C3_CompletedAfterClearRecv ==
  \A r \in Ranks(topo) :
    (last[r].op = "ClearRecv" /\ last[r].ret = "complete") =>
      \A m \in MBs(topo, r) : \A n \in Slots :
        Exists(topo, r, m, n) => recv_vars_stat[r][n][m] = "completed"

\* C4: a call of InitRecv registers one receive for (m,n) when the neighbour
\* exists on another rank and none otherwise.
C4_OneRecvPerRemotePair ==
  \A r \in Ranks(topo) : last[r].op = "InitRecv" =>
    \A m \in MBs(topo, r) : \A n \in Slots :
      Cardinality(LogOf(r, m, n)) = IF Remote(topo, r, m, n) THEN 1 ELSE 0

\* InitRecv has returned on a rank with a remote neighbour (one receive in
\* the log) and a same-rank neighbour (none)
C4_Witness ==
  \E r \in Ranks(topo) : \E m \in MBs(topo, r) : \E n1, n2 \in Slots :
    /\ last[r].op = "InitRecv"
    /\ Remote(topo, r, m, n1) /\ Cardinality(LogOf(r, m, n1)) = 1
    /\ Local(topo, r, m, n2) /\ LogOf(r, m, n2) = {}

\* C5: InitRecv returns fail exactly when a registration returned an error;
\* no (m,n) is registered twice in a call (no retry), and every remote
\* (m,n) is attempted, also those after a failed registration.
C5_FailIffSomeRegistrationFailed ==
  \A r \in Ranks(topo) : last[r].op = "InitRecv" =>
    /\ (last[r].ret = "fail") <=> (\E i \in DOMAIN last[r].log : ~last[r].log[i].ok)
    /\ (last[r].ret = "complete") <=> (\A i \in DOMAIN last[r].log : last[r].log[i].ok)
    /\ \A i, j \in DOMAIN last[r].log :
         (last[r].log[i].m = last[r].log[j].m /\ last[r].log[i].n = last[r].log[j].n)
           => i = j
    /\ \A p \in RemotePairs(topo, r) : LogOf(r, p[1], p[2]) # {}

\* InitRecv returned fail after a failed registration that was followed by a
\* successful one
C5_Witness ==
  \E r \in Ranks(topo) : \E i, j \in DOMAIN last[r].log :
    /\ last[r].op = "InitRecv" /\ last[r].ret = "fail"
    /\ i < j /\ ~last[r].log[i].ok /\ last[r].log[j].ok

\* C8: the variable and the flux-correction communicator of every object
\* differ, and the receives of InitRecv are posted on the variable one: a
\* message carrying the tag and source rank of a pending receive but sent on
\* a flux-correction communicator matches no receive.
C8_FluxMessageNeverMatchesVarsRecv ==
  \A r, s \in Ranks(topo) :
    /\ vars_comm[r] # flux_comm[s]
    /\ last[r].op = "InitRecv" =>
         \A i \in DOMAIN last[r].log : last[r].log[i].comm # flux_comm[s]
    /\ \A m \in MBs(topo, r) : \A n \in Slots :
         ~Matches(topo, r, m, n,
                  [src |-> nghbr(topo, r, m, n).rank, dst |-> r,
                   tag |-> CreateMPITag(m, n), comm |-> flux_comm[s]])

\* a receive is pending on the variable communicator, so a flux message with
\* its tag and source could be offered to it
C8_Witness ==
  \E r \in Ranks(topo) : \E m \in MBs(topo, r) : \E n \in Slots :
    /\ recv_vars_req[r][n][m] = "pending"
    /\ Matches(topo, r, m, n,
               [src |-> nghbr(topo, r, m, n).rank, dst |-> r,
                tag |-> CreateMPITag(m, n), comm |-> vars_comm[r]])

\* the step in which rank r returns from ClearRecv / ClearSend
ClearReturns(r, op) == bpc[r] = op /\ bpc'[r] # op

\* C11: ClearRecv (ClearSend) returns only when no receive (send) for an
\* existing neighbour on another rank is pending, and leaves none in flight;
\* it returns fail exactly when a wait reported an error; when ClearSend
\* returns complete no request of the rank is in flight.
C11_ClearReturnsAfterAllFinished ==
  [][\A r \in Ranks(topo) :
       /\ ClearReturns(r, "ClearRecv") =>
            /\ \A m \in MBs(topo, r) : \A n \in Slots : Remote(topo, r, m, n) =>
                 (recv_vars_req[r][n][m] # "pending" /\ recv_vars_req'[r][n][m] = "null")
            /\ (last'[r].ret = "fail") <=> (\E i \in DOMAIN last'[r].log : ~last'[r].log[i].ok)
            /\ last'[r].ret \in {"fail", "complete"}
       /\ ClearReturns(r, "ClearSend") =>
            /\ \A m \in MBs(topo, r) : \A n \in Slots : Remote(topo, r, m, n) =>
                 (send_vars_req[r][n][m] # "pending" /\ send_vars_req'[r][n][m] = "null")
            /\ (last'[r].ret = "fail") <=> (\E i \in DOMAIN last'[r].log : ~last'[r].log[i].ok)
            /\ last'[r].ret \in {"fail", "complete"}
            /\ last'[r].ret = "complete" =>
                 \A m \in MBs(topo, r) : \A n \in Slots :
                   recv_vars_req'[r][n][m] = "null" /\ send_vars_req'[r][n][m] = "null"]_vars

\* ClearSend has returned complete on a rank with a neighbour on another
\* rank, after its receive and its send had both been posted and finished
C11_Witness ==
  \E r \in Ranks(topo) : \E m \in MBs(topo, r) : \E n \in Slots :
    /\ Remote(topo, r, m, n)
    /\ last[r].op = "ClearSend" /\ last[r].ret = "complete"
    /\ Len(last[r].log) > 0
    /\ recv_vars_req[r][n][m] = "null" /\ send_vars_req[r][n][m] = "null"

\* the step in which rank r returns from PackAndSendCC_Orb / PackAndSendFC_Orb
\* after posting its sends
OrbSendReturns(r) ==
  /\ opc[r] \in {"PackCC", "PackFC"}
  /\ opc'[r] \in {"UnpackCC", "UnpackFC"}

\* C12: a send is posted on the request handle of a (block, slot) only when
\* no send posted on that handle in an earlier stage is still in flight.
C12_NoSendOnBusyHandle ==
  [][\A r \in Ranks(topo) : OrbSendReturns(r) =>
       \A i \in DOMAIN onet'[r] : \A j \in DOMAIN onet[r] :
         (i > Len(onet[r]) /\ onet'[r][i].kind = onet[r][j].kind
            /\ onet'[r][i].m = onet[r][j].m /\ onet'[r][i].n = onet[r][j].n)
           => onet[r][j].stage = onet'[r][i].stage]_vars

\* -- the orbital exchange
OrbKind(r) == IF opc[r] = "UnpackCC" THEN "vars" ELSE "flds"

\* the step in which a call of RecvAndUnpackCC_Orb / RecvAndUnpackFC_Orb on
\* rank r returns complete or incomplete
OrbPolls(r) ==
  /\ opc[r] \in {"UnpackCC", "UnpackFC"}
  /\ olast'[r] # olast[r]
  /\ olast'[r].op = opc[r]
  /\ olast'[r].ret \in {"complete", "incomplete"}

\* the step in which such a call passes step 1 and runs step 2
OrbUnpacks(r) == OrbPolls(r) /\ olast'[r].ret = "complete"

\* the receives of the kind rank r is polling that have not finished
OrbPending(r) ==
  {p \in MBs(topo, r) \X OrbBufs : orb_rreq[r][OrbKind(r)][p[2]][p[1]] = "pending"}

\* the receives of that kind posted on rank r, finished or not
OrbPosted(r) ==
  {p \in MBs(topo, r) \X OrbBufs : Remote(topo, r, p[1], OrbSlot(p[2]))}

\* C1: RecvAndUnpackCC_Orb and RecvAndUnpackFC_Orb run step 2 only when no
\* receive filling a buffer step 2 reads (recvbuf_orb[0] and recvbuf_orb[1]
\* of every block) is still pending.
C1_UnpackReadsOnlyFinishedBuffers ==
  [][\A r \in Ranks(topo) : OrbUnpacks(r) =>
       \A p \in OrbRead(r) : p \notin OrbPending(r)]_vars

\* C6: the tag of every message in flight equals the tag the destination
\* rank computes (CreateMPITag(m, n)) for exactly one of its (block, slot)
\* pairs, and that pair is the block the message is for and the slot that
\* faces the sending block.
C6_SendTagIsTagOfTheFacingRecv ==
  \A s \in Ranks(topo) : \A i \in DOMAIN onet[s] :
    LET msg == onet[s][i]
        hit == {p \in MBs(topo, msg.dst) \X Slots : CreateMPITag(p[1], p[2]) = msg.tag}
    IN  /\ Cardinality(hit) = 1
        /\ \A p \in hit :
             /\ nghbr(topo, msg.dst, p[1], p[2]).gid = mb_gid(topo, s, msg.m)
             /\ nghbr(topo, msg.dst, p[1], p[2]).rank = s
             /\ nghbr(topo, msg.dst, p[1], p[2]).dest = msg.n

\* a message is in flight to a block that is not the first of its rank, from
\* a rank whose first block has another global id than the destination's
C6_Witness ==
  \E s \in Ranks(topo) : \E i \in DOMAIN onet[s] :
    /\ nghbr(topo, s, onet[s][i].m, onet[s][i].n).gid
         # gids_eachrank(topo, onet[s][i].dst)
    /\ gids_eachrank(topo, s) # gids_eachrank(topo, onet[s][i].dst)

\* C7: no two messages in flight at the same time carry the same destination
\* rank, tag and communicator.
C7_DestTagCommIdentifyOneMessage ==
  \A s1, s2 \in Ranks(topo) : \A i \in DOMAIN onet[s1] : \A j \in DOMAIN onet[s2] :
    (onet[s1][i].dst = onet[s2][j].dst /\ onet[s1][i].tag = onet[s2][j].tag
       /\ onet[s1][i].comm = onet[s2][j].comm)
      => (s1 = s2 /\ i = j)

\* C9: a poll returns incomplete exactly when a receive from a neighbour on
\* another rank has not finished, and complete exactly when none is pending.
C9_IncompleteIffSomeRecvPending ==
  [][\A r \in Ranks(topo) : OrbPolls(r) =>
       ((olast'[r].ret = "incomplete") <=> (OrbPending(r) # {}))]_vars

\* C10: a poll made while receives are posted and no message has arrived
\* returns incomplete, and a poll on a rank all of whose neighbours are on
\* the same rank returns complete.
C10_TestBeforeArrivalAndSameRank ==
  [][\A r \in Ranks(topo) : OrbPolls(r) =>
       /\ (OrbPosted(r) # {} /\ OrbPending(r) = OrbPosted(r))
            => olast'[r].ret = "incomplete"
       /\ (\A m \in MBs(topo, r) : \A n \in Slots : ~Remote(topo, r, m, n))
            => olast'[r].ret = "complete"]_vars

\* C13: every step that has ended has returned complete, incomplete or fail
\* to its caller, also the steps that detected a transport error.
C13_EveryStepReturnsAStatus ==
  \A r \in Ranks(topo) :
    /\ last[r].op # "none" => last[r].ret \in {"complete", "incomplete", "fail"}
    /\ olast[r].op # "none" => olast[r].ret \in {"complete", "incomplete", "fail"}

\* C14: InitRecv and PackAndSendCC_Orb / PackAndSendFC_Orb can always run to
\* their end: whatever the other ranks have or have not done, the step of a
\* rank whose turn it is can be taken.
C14_PostingNeverWaits ==
  \A r \in Ranks(topo) :
    /\ (Running /\ bpc[r] = "InitRecv") => ENABLED InitRecv(r)
    /\ (OrbRunning /\ opc[r] = "PackCC") => ENABLED PackAndSendCC_Orb(r)
    /\ (OrbRunning /\ opc[r] = "PackFC") => ENABLED PackAndSendFC_Orb(r)

\* a rank has returned from InitRecv and, later, from PackAndSendFC_Orb with
\* its sends in flight, while the rank of its neighbour has not taken any
\* step of the orbital exchange
C14_Witness ==
  \E r, q \in Ranks(topo) :
    /\ r # q
    /\ stage[r] > 0 /\ opc[r] = "UnpackFC"
    /\ \E i \in DOMAIN onet[r] : onet[r][i].dst = q
    /\ opc[q] = "InitRecv" /\ ostage[q] = 0 /\ orq[q] = <<>>

\* rank r of the run is in task op / is not, or the run has been aborted
WaitsIn(r, op) == IF r \in Ranks(topo) THEN bpc[r] = op ELSE FALSE

ReturnedFrom(r, op) == IF r \in Ranks(topo) THEN bpc[r] # op \/ ~Running ELSE TRUE

\* C15: when every rank runs its stages and every message is delivered, a
\* rank that waits in ClearRecv or ClearSend eventually returns from it,
\* unless a step of the run reported a transport error (a run has at most
\* one rank per block, so the ranks are among 0 .. NBlocks-1).
C15_ClearEventuallyReturns ==
  \A r \in Gids :
    /\ WaitsIn(r, "ClearRecv") ~> ReturnedFrom(r, "ClearRecv")
    /\ WaitsIn(r, "ClearSend") ~> ReturnedFrom(r, "ClearSend")

\* two ranks that exchanged messages in every stage have both returned from
\* the last ClearSend
C15_Witness ==
  /\ topo.nranks = 2
  /\ \A r \in Ranks(topo) :
       /\ bpc[r] = "done" /\ stage[r] = MaxStage
       /\ last[r].op = "ClearSend" /\ last[r].ret = "complete"
       /\ Len(last[r].log) > 0

\* -- the kernels, by cell
\* the cells of face n of a block: the ng + maxjshift lowest (n = 0) or
\* highest (n = 1) cells of its interior
FaceCells(in, n) ==
  {j \in js(in) .. je(in) :
     IF n = 0 THEN j - js(in) < in.ng + in.maxjshift
              ELSE je(in) - j < in.ng + in.maxjshift}

FaceFirst(in, n) == CHOOSE j \in FaceCells(in, n) : \A i \in FaceCells(in, n) : j <= i

\* the cells of buffer b the load of the unpack reads, over all shifts
UnpkReads(in, b) ==
  {s.idx : s \in {x \in {OaUnpkSource(in, p[1], p[2]) :
                           p \in (0 .. (ncells2(in) - 1)) \X JOffsets(in)} :
                    x.from = "rbuf" /\ x.b = b}}

\* C16: after the pack kernel, for every block m and face n (0 lower, 1
\* upper) whose neighbour is on the same rank, the cells of the face are in
\* the receive buffer (n+1) mod 2 of the neighbour block, whose index is its
\* global id less that of the first block of the pack and lies in [0, nmb);
\* cell j is at the offset it has in the face, and the cells written are
\* those the unpack of the neighbour reads from that buffer.
C16_LocalCopyFillsOppositeBuffer ==
  kpc \in {"unpack", "done"} =>
    \A m \in MBs(topo, krank) : \A n \in OrbBufs :
      Local(topo, krank, m, OrbSlot(n)) =>
        LET dm == nghbr(topo, krank, m, OrbSlot(n)).gid - gids_eachrank(topo, krank)
            dn == (n + 1) % 2
        IN  /\ dm \in MBs(topo, krank)
            /\ mb_gid(topo, krank, dm) = nghbr(topo, krank, m, OrbSlot(n)).gid
            /\ \A j \in FaceCells(kin, n) :
                 RbufCell(krbuf, dn, dm, j - FaceFirst(kin, n)) = a(topo, krank, m, j)
            /\ {e.idx : e \in {x \in krbuf : x.b = dn /\ x.m = dm}}
                 = UnpkReads(kin, dn)

\* the pack kernel has run on a rank of a two-rank mesh that has a block
\* with a same-rank neighbour across a face and more than one block
C16_Witness ==
  /\ kpc = "unpack"
  /\ topo.nranks = 2 /\ nmb_thispack(topo, krank) > 1
  /\ \E m \in MBs(topo, krank) : \E n \in OrbBufs :
       /\ Local(topo, krank, m, OrbSlot(n))
       /\ nghbr(topo, krank, m, OrbSlot(n)).gid # mb_gid(topo, krank, m)
       /\ krbuf # {}

\* the step in which rank r returns from PackAndSendCC_Orb
OrbPacksCC(r) == opc[r] = "PackCC" /\ opc'[r] # "PackCC"

\* C17: for the x2-face neighbours on the same rank, the cell-centred unpack
\* of a stage reads a receive buffer that the pack of that stage has written
\* with the face of the neighbour; the pack of a stage overwrites a buffer
\* only after the unpack of the stage that wrote it has read it; and the
\* poll tests no request for such a pair.
C17_LocalBufferPhaseOrder ==
  [][\A r \in Ranks(topo) : \A m \in MBs(topo, r) : \A b \in OrbBufs :
       Local(topo, r, m, OrbSlot(b)) =>
         /\ (OrbUnpacks(r) /\ opc[r] = "UnpackCC") =>
              /\ orb_buf[r]["vars"][b][m].stage = ostage[r]
              /\ orb_buf[r]["vars"][b][m].from = nghbr(topo, r, m, OrbSlot(b)).gid
              /\ orb_buf'[r]["vars"][b][m].read = ostage[r]
         /\ OrbPacksCC(r) =>
              /\ orb_buf[r]["vars"][b][m].read = orb_buf[r]["vars"][b][m].stage
              /\ orb_buf'[r]["vars"][b][m].stage = ostage[r]
         /\ ~OrbTests(topo, r, m, OrbSlot(b))]_vars

\* in the second stage a rank has packed a buffer of a same-rank neighbour
\* again, after the unpack of the first stage had read it
C17_Witness ==
  \E r \in Ranks(topo) : \E m \in MBs(topo, r) : \E b \in OrbBufs :
    /\ Local(topo, r, m, OrbSlot(b))
    /\ ostage[r] = 1 /\ opc[r] = "PackFC"
    /\ orb_buf[r]["vars"][b][m].stage = 1
    /\ orb_buf[r]["vars"][b][m].read = 1

\* the face a gather with zero shift finds in buffer b of block m: the
\* interior cells of the x2-face neighbour that face m, packed as buffer
\* (b + 1) % 2 of that neighbour
HoldsNeighbourFace(r, m, b) ==
  /\ orb_buf[r]["vars"][b][m].from = nghbr(topo, r, m, OrbSlot(b)).gid
  /\ orb_buf[r]["vars"][b][m].face = (b + 1) % 2

\* C18: for two blocks adjacent across an x2 face, what PackAndSendCC_Orb
\* of one block puts into the receive buffer of the other, and a gather
\* with zero shift then reads, is the packed face of the neighbour, on the
\* same rank and on different ranks
C18_BufferHoldsNeighbourFace ==
  \A r \in Ranks(topo) : \A m \in MBs(topo, r) : \A b \in OrbBufs :
    (Exists(topo, r, m, OrbSlot(b)) /\ orb_buf[r]["vars"][b][m].stage # NoData.stage)
      => HoldsNeighbourFace(r, m, b)

\* the same-rank half of C18
C18_SameRankBufferHoldsNeighbourFace ==
  \A r \in Ranks(topo) : \A m \in MBs(topo, r) : \A b \in OrbBufs :
    (Local(topo, r, m, OrbSlot(b)) /\ orb_buf[r]["vars"][b][m].stage # NoData.stage)
      => HoldsNeighbourFace(r, m, b)

C18_SameRankWitness ==
  \E r \in Ranks(topo) : \E m \in MBs(topo, r) : \E b \in OrbBufs :
    /\ Local(topo, r, m, OrbSlot(b))
    /\ orb_buf[r]["vars"][b][m].stage = 0
    /\ orb_buf[r]["vars"][b][m].read = 0

\* every pass of InitializeBuffers on mesh f, as (loop nest, pass)
AllCalls(f) ==
  {p \in (1 .. Len(Sections)) \X (1 .. 8) :
     p[2] <= Len(CallsOf(f, Sections[p[1]]))}

SlotOfCall(f, p) ==
  LET c == CallsOf(f, Sections[p[1]])[p[2]]
  IN  NeighborIndx(c[1], c[2], c[3], c[4], c[5])

\* the (offset, subface) inputs InitializeBuffers enumerates on mesh f
InputsOf(f) == {CallsOf(f, Sections[p[1]])[p[2]] : p \in AllCalls(f)}

FullMesh(f) == f.multilevel /\ f.multi_d /\ f.three_d

InitializeBuffersReturned == ib_pc.sec = Len(Sections) + 1

\* C19: on a three-dimensional multilevel mesh no two passes of
\* InitializeBuffers have the same input, NeighborIndx maps the inputs
\* one to one onto the slots 0..55 (as many slots as inputs, and every slot
\* among them), no buffer
\* is initialised or allocated twice, and when InitializeBuffers returns
\* each of the 56 send and receive buffers was initialised and allocated
\* exactly once
C19_NeighborIndxBijection ==
  FullMesh(pmesh) =>
    /\ Cardinality(InputsOf(pmesh)) = Cardinality(AllCalls(pmesh))
    /\ Cardinality({SlotOfCall(pmesh, p) : p \in AllCalls(pmesh)})
         = Cardinality(InputsOf(pmesh))
    /\ {SlotOfCall(pmesh, p) : p \in AllCalls(pmesh)} = Slots
    /\ \A n \in Slots :
         /\ send_buf[n].indices <= 1 /\ send_buf[n].buffers <= 1
         /\ recv_buf[n].indices <= 1 /\ recv_buf[n].buffers <= 1
    /\ InitializeBuffersReturned =>
         \A n \in Slots : /\ send_buf[n].indices = 1 /\ send_buf[n].buffers = 1
                          /\ recv_buf[n].indices = 1 /\ recv_buf[n].buffers = 1

C19_Witness ==
  /\ FullMesh(pmesh)
  /\ InitializeBuffersReturned
  /\ send_buf[nnghbr - 1].buffers = 1
  /\ recv_buf[X2HI].indices = 1

\* the two x2-face slots of the orbital exchange
X2Faces == {X2LO, X2HI}

\* C20: in the orbital exchange sends are posted only for the lower and the
\* upper x2-face neighbour of a block, and a call of RecvAndUnpackCC_Orb /
\* RecvAndUnpackFC_Orb tests only requests of these two slots, so that no
\* other slot has a part in the result of the call
C20_OnlyX2FacesTakePart ==
  [][\A r \in Ranks(topo) :
       /\ OrbSendReturns(r) =>
            \A i \in DOMAIN onet'[r] : onet'[r][i].n \in X2Faces
       /\ OrbPolls(r) =>
            \A p \in OrbTested(topo, r) : p[2] \in X2Faces]_vars

\* the sending half of C20
C20_SendsOnlyForX2Faces ==
  \A r \in Ranks(topo) : \A i \in DOMAIN onet[r] : onet[r][i].n \in X2Faces

\* the unpack kernel has run on the line of cells
OaUnpkDone == kpc = "done"

\* C21: for every shift distance yshear, positive or negative, the integer
\* offset of the remap is floor(yshear / dx2), the fractional offset epsi
\* lies in [0,1), and joffset*dx2 + epsi*dx2 = yshear
C21_OffsetIsFloorEpsiInUnitInterval ==
  OaUnpkDone =>
    /\ kgather.joffset * kshear.dx2 <= kshear.yshear
    /\ kshear.yshear < (kgather.joffset + 1) * kshear.dx2
    /\ 0 <= EpsiNum(kshear) /\ EpsiNum(kshear) < kshear.dx2
    /\ kgather.joffset * kshear.dx2 + EpsiNum(kshear) = kshear.yshear

\* what holds of the offsets in exact arithmetic: they add up to yshear, the
\* integer offset is the quotient cut off towards zero and epsi has the sign
\* of yshear
C21_OffsetsAddUp ==
  OaUnpkDone =>
    /\ kgather.joffset * kshear.dx2 + EpsiNum(kshear) = kshear.yshear
    /\ (0 - kshear.dx2) < EpsiNum(kshear) /\ EpsiNum(kshear) < kshear.dx2
    /\ EpsiNum(kshear) * kshear.yshear >= 0
    /\ kgather.joffset * kshear.yshear >= 0

\* the value cell j of block m held before the call, on the scale of kout
OldValue(m, j) == FlxScale(kshear) * Val(kin, a(topo, krank, m, j))

\* C22: with donor-cell reconstruction, zero integer offset and zero
\* fractional offset the unpack leaves every interior cell u0(m,n,k,j,i),
\* js <= j <= je, at the value it had before the call
C22_ZeroShiftDonorCellIsIdentity ==
  (/\ OaUnpkDone
   /\ kshear.rcon = "dc"
   /\ kgather.joffset = 0 /\ EpsiNum(kshear) = 0) =>
    \A m \in MBs(topo, krank) : \A j \in js(kin) .. je(kin) :
      kout[m][j] = OldValue(m, j)

C22_Witness ==
  /\ OaUnpkDone
  /\ kshear.rcon = "dc" /\ kshear.yshear = 0
  /\ kgather.joffset = 0
  /\ \E m \in MBs(topo, krank) : kout[m][js(kin)] = OldValue(m, js(kin))

\* the cell of the x2-face neighbour that lies nx2 cells away from the
\* source index jsrc of block m, below (jsrc < js) or above (jsrc > je)
NeighbourCell(m, jsrc) ==
  IF jsrc < js(kin)
    THEN <<nghbr(topo, krank, m, X2LO).gid, jsrc + kin.nx2>>
    ELSE <<nghbr(topo, krank, m, X2HI).gid, jsrc - kin.nx2>>

\* the cell of the lower (upper) receive buffer that holds source index jsrc:
\* the last cell of the lower buffer is the cell next to js, the first cell
\* of the upper buffer the cell next to je
BufferCell(m, jsrc) ==
  IF jsrc < js(kin)
    THEN RbufCell(krbuf, 0, m, (kin.ng + kin.maxjshift - 1) - ((js(kin) - 1) - jsrc))
    ELSE RbufCell(krbuf, 1, m, jsrc - (je(kin) + 1))

\* C23: with zero fractional offset and an integer offset s, |s| <= maxjshift,
\* the unpack sets every interior cell j to the old value at source index
\* j - s: the block's own old value when js <= j - s <= je, otherwise the
\* value held in the lower or upper receive buffer, which for a neighbour on
\* the same rank is the old value of the neighbour's cell; for 8 interior
\* cells 1..8 and s = 1 the interior becomes (neighbour value, 1, ..., 7)
C23_IntegerShiftMovesCells ==
  (OaUnpkDone /\ EpsiNum(kshear) = 0) =>
    LET s == kgather.joffset
    IN  /\ s * kshear.dx2 = kshear.yshear
        /\ \A m \in MBs(topo, krank) : \A j \in js(kin) .. je(kin) :
             IF js(kin) <= j - s /\ j - s <= je(kin)
               THEN kout[m][j] = OldValue(m, j - s)
               ELSE /\ kgather.u0_[m][j] = BufferCell(m, j - s)
                    /\ Local(topo, krank, m, IF j - s < js(kin) THEN X2LO ELSE X2HI)
                         => kout[m][j] = FlxScale(kshear) * Val(kin, NeighbourCell(m, j - s))
        /\ (kin.nx2 = ExampleCells /\ s = 1) =>
             \A m \in MBs(topo, krank) :
               (mb_gid(topo, krank, m) = 0) =>
                 \A j \in js(kin) .. je(kin) :
                   /\ j > js(kin) => kout[m][j] = FlxScale(kshear) * (j - js(kin))
                   /\ j = js(kin) => kgather.u0_[m][j] = BufferCell(m, js(kin) - 1)

\* the example: 8 interior cells shifted by one cell
C23_Witness ==
  /\ OaUnpkDone
  /\ kin.nx2 = ExampleCells /\ kin.ng = 2
  /\ EpsiNum(kshear) = 0 /\ kgather.joffset = 1
  /\ \E m \in MBs(topo, krank) :
       /\ mb_gid(topo, krank, m) = 0
       /\ Local(topo, krank, m, X2LO)
       /\ nghbr(topo, krank, m, X2LO).gid # 0
       /\ kout[m][js(kin)] = FlxScale(kshear) * Val(kin, NeighbourCell(m, js(kin) - 1))
       /\ kout[m][je(kin)] = FlxScale(kshear) * (ExampleCells - 1)

\* every block has a neighbour across both x2 faces
PeriodicInX2 ==
  \A r \in Ranks(topo) : \A m \in MBs(topo, r) :
    Exists(topo, r, m, X2LO) /\ Exists(topo, r, m, X2HI)

\* the kernels of every rank have run
AllRanksDone == OaUnpkDone /\ \A r \in Ranks(topo) : ksum[r].run

\* the sum of the field over the interior cells of all blocks before the
\* remap, on the scale of kout
RECURSIVE SumBefore(_)
SumBefore(ranks) ==
  IF ranks = {} THEN 0
  ELSE LET r == CHOOSE x \in ranks : TRUE
       IN  SumOfBlocks([m \in MBs(topo, r) |->
                          [j \in js(kin) .. je(kin) |->
                             FlxScale(kshear) * Val(kin, a(topo, r, m, j))]],
                       MBs(topo, r), kin)
           + SumBefore(ranks \ {r})

RECURSIVE SumAfter(_)
SumAfter(ranks) ==
  IF ranks = {} THEN 0
  ELSE LET r == CHOOSE x \in ranks : TRUE
       IN  ksum[r].sum + SumAfter(ranks \ {r})

\* C24: on a domain periodic in x2 one orbital remap (pack, then unpack with
\* any offset within the buffer capacity) preserves the sum of the field over
\* the interior cells of a (variable, k, i) line across all blocks
C24_RemapConservesSum ==
  (AllRanksDone /\ PeriodicInX2) => SumAfter(Ranks(topo)) = SumBefore(Ranks(topo))

\* the same on one rank, where every buffer is filled by the pack kernel
C24_RemapConservesSumOnOneRank ==
  (AllRanksDone /\ PeriodicInX2 /\ topo.nranks = 1) =>
    SumAfter(Ranks(topo)) = SumBefore(Ranks(topo))

C24_OneRankWitness ==
  /\ AllRanksDone /\ PeriodicInX2 /\ topo.nranks = 1
  /\ topo.ring = "x2"
  /\ EpsiNum(kshear) # 0 /\ kgather.joffset # 0
  /\ kshear.rcon = "plm"

\* C25: a field b0 with zero discrete divergence in every interior cell has
\* zero discrete divergence in every interior cell after RecvAndUnpackFC_Orb,
\* and every EMF value the three CT updates read (also at j = je+1, i = ie+1
\* and k = ke+1) was computed in the same call
C25_CTPreservesDivergenceFromFreshEmf ==
  fcpc = "done" =>
    /\ \A p \in FcInterior : Divergence(pmesh, b0, p) = 0
    /\ emf_read.x \subseteq emf_new.x
    /\ emf_read.z \subseteq emf_new.z

\* the half of C25 that holds: the divergence stays zero
C25_CTPreservesDivergence ==
  fcpc = "done" => \A p \in FcInterior : Divergence(pmesh, b0, p) = 0

\* a 3D call whose EMFs are not all equal has changed the field
C25_DivergenceWitness ==
  /\ fcpc = "done"
  /\ pmesh.three_d
  /\ FcJOffset(fcin) # 0
  /\ \E p \in FcInterior : b0.x1f[p] # fcin.bval /\ b0.x3f[p] # fcin.bval

BeforeFirstInitRecv ==
  \A r \in Ranks(topo) : stage[r] = 0 /\ last[r] = NoCall

\* every status flag is undef and every request handle is the null request
FlagsAsConstructed ==
  \A r \in Ranks(topo) : \A n \in Slots : \A m \in MBs(topo, r) :
    /\ recv_vars_stat[r][n][m] = "undef" /\ send_vars_stat[r][n][m] = "undef"
    /\ flux_stat[r].recv[n][m] = "undef" /\ flux_stat[r].send[n][m] = "undef"
    /\ recv_vars_req[r][n][m] = "null" /\ send_vars_req[r][n][m] = "null"
    /\ flux_req[r].recv[n][m] = "null" /\ flux_req[r].send[n][m] = "null"

SizesZero(b) ==
  b.isame_ndat = 0 /\ b.icoar_ndat = 0 /\ b.ifine_ndat = 0 /\ b.iflux_ndat = 0

\* C27: after the construction of BoundaryValues and before the first
\* InitRecv, every send and receive status flag (variables and fluxes) is
\* undef, every request handle is the null request and the same, coarser,
\* finer and flux data sizes of every send and receive buffer are zero
C27_ConstructedStateUntilInitRecv ==
  BeforeFirstInitRecv =>
    /\ FlagsAsConstructed
    /\ \A n \in Slots : SizesZero(send_buf[n]) /\ SizesZero(recv_buf[n])

\* C27 as amended: before the first InitRecv every status flag is undef and
\* every request handle is the null request, and the data sizes of a buffer
\* are zero as long as InitializeBuffers has not initialised its slot
C27_ConstructedStateUntilInitializeBuffers ==
  BeforeFirstInitRecv =>
    /\ FlagsAsConstructed
    /\ \A n \in Slots :
         /\ send_buf[n].indices = 0 => SizesZero(send_buf[n])
         /\ recv_buf[n].indices = 0 => SizesZero(recv_buf[n])

\* InitializeBuffers has initialised the lower x1 face and not yet the upper
C27_Witness ==
  /\ BeforeFirstInitRecv
  /\ send_buf[0].indices = 1 /\ ~SizesZero(send_buf[0])
  /\ recv_buf[4].indices = 0 /\ SizesZero(recv_buf[4])

\* C28: the buffer PackAndSendCC_Orb / PackAndSendFC_Orb hand to the
\* non-blocking send for the x2 face n of block m is the send buffer the
\* pack kernel filled for that face of that block in the same call (buffer 0
\* for the lower face, 1 for the upper face): every message in flight carries
\* the cells packed in the stage it was sent in
C28_SendCarriesPackedFace ==
  \A r \in Ranks(topo) : \A i \in DOMAIN onet[r] :
    \E b \in OrbBufs :
      /\ OrbSlot(b) = onet[r][i].n
      /\ onet[r][i].data = [from |-> mb_gid(topo, r, onet[r][i].m), face |-> b,
                            stage |-> onet[r][i].stage, read |-> -1]

\* C29: the values RecvAndUnpackFC_Orb gathers from the lower and the upper
\* receive buffer are the values PackAndSendFC_Orb stored: the unpack reads
\* the buffer array the pack of the stage wrote (for a same-rank neighbour
\* the kernel wrote it directly)
C29_FCUnpackReadsWhatFCPackStored ==
  [][\A r \in Ranks(topo) : \A m \in MBs(topo, r) : \A b \in OrbBufs :
       (OrbUnpacks(r) /\ opc[r] = "UnpackFC" /\ Local(topo, r, m, OrbSlot(b))) =>
         /\ orb_buf[r]["flds"][b][m].stage = ostage[r]
         /\ orb_buf'[r]["flds"][b][m].read = ostage[r]]_vars

\* the slots the comment of the s-th loop nest of InitializeBuffers names:
\* NeighborIndex = [0,...,7], [8,...,15], ..., [48,...,55]
SectionSlots(s) == (8 * (s - 1)) .. (8 * (s - 1) + 7)

\* the slots whose buffers have been initialised
InitialisedSlots == {n \in Slots : send_buf[n].indices >= 1 /\ recv_buf[n].indices >= 1}

\* C30: the x1 faces have the slots 0..7, the x2 faces 8..15, the x1x2 edges
\* 16..23, the x3 faces 24..31, the x3x1 edges 32..39, the x2x3 edges 40..47
\* and the corners 48..55; the slots 8 and 12 of the orbital exchange are the
\* first subface of the lower and of the upper x2 face; in 1D only x1-face
\* slots are initialised, in 2D also x2-face and x1x2-edge slots, and without
\* multilevel one subface slot per direction
C30_SlotLayout ==
  /\ \A p \in AllCalls(pmesh) : SlotOfCall(pmesh, p) \in SectionSlots(p[1])
  /\ FullMesh(pmesh) =>
       \A s \in 1 .. Len(Sections) :
         {SlotOfCall(pmesh, p) : p \in {q \in AllCalls(pmesh) : q[1] = s}}
           = SectionSlots(s)
  /\ X2LO = NeighborIndx(0, 0 - 1, 0, 0, 0) /\ X2HI = NeighborIndx(0, 1, 0, 0, 0)
  /\ InitialisedSlots \subseteq {SlotOfCall(pmesh, p) : p \in AllCalls(pmesh)}
  /\ InitializeBuffersReturned =>
       /\ InitialisedSlots = {SlotOfCall(pmesh, p) : p \in AllCalls(pmesh)}
       /\ ~pmesh.multi_d => InitialisedSlots \subseteq SectionSlots(1)
       /\ (pmesh.multi_d /\ ~pmesh.three_d) =>
            /\ InitialisedSlots
                 \subseteq SectionSlots(1) \cup SectionSlots(2) \cup SectionSlots(3)
            /\ X2LO \in InitialisedSlots /\ X2HI \in InitialisedSlots
            /\ InitialisedSlots \cap SectionSlots(3) # {}
       /\ ~pmesh.multilevel =>
            \A c \in InputsOf(pmesh) :
              /\ c[4] = 0 /\ c[5] = 0
              /\ Cardinality({n \in InitialisedSlots :
                    \E d \in InputsOf(pmesh) :
                      /\ d[1] = c[1] /\ d[2] = c[2] /\ d[3] = c[3]
                      /\ n = NeighborIndx(d[1], d[2], d[3], d[4], d[5])}) = 1

\* a 2D mesh without refinement after InitializeBuffers: the first subface of
\* the lower x2 face is initialised, the second is not
C30_Witness ==
  /\ InitializeBuffersReturned
  /\ pmesh.multi_d /\ ~pmesh.three_d /\ ~pmesh.multilevel
  /\ send_buf[X2LO].indices = 1
  /\ send_buf[X2LO + 1].indices = 0
  /\ send_buf[NeighborIndx(1, 1, 0, 0, 0)].indices = 1

\* C31: the element count of the receive InitRecv posts for (m, n) is nvars
\* times the coarse size of the slot when the neighbour's level is lower than
\* the block's, times the same-level size when the levels are equal and times
\* the fine size when it is higher; each call computes it from the levels of
\* that call, and it never exceeds the allocated capacity of the slot
C31_RecvCountByLevel ==
  szpc = "posted" =>
    /\ szlev.nghbr < szlev.mb => data_size = szbuf.nvar * szbuf.icoar_ndat
    /\ szlev.nghbr = szlev.mb => data_size = szbuf.nvar * szbuf.isame_ndat
    /\ szlev.nghbr > szlev.mb => data_size = szbuf.nvar * szbuf.ifine_ndat
    /\ data_size <= szbuf.capacity

\* a second call after a regrid that made the neighbour coarser posts the
\* coarse size, which differs from the other two
C31_Witness ==
  /\ szpc = "posted"
  /\ szcalls = 2
  /\ szlev.nghbr < szlev.mb
  /\ data_size # szbuf.nvar * szbuf.isame_ndat
  /\ data_size # szbuf.nvar * szbuf.ifine_ndat

\* the teams of oa-pack have all run
OaPackDone == pkpc = "done"

\* the j the pack has read for face n of block m
PackedJ(m, n) == {c.src.j : c \in {d \in DOMAIN pkcopies : d.src.m = m /\ d.src.n = n}}

CellsToPack ==
  {c \in [m : MBs(topo, pkrank), n : OrbBufs, v : 0 .. (pkin.nvar - 1),
          k : ks(pkin) .. ke(pkin), j : js(pkin) .. je(pkin),
          i : is(pkin) .. ie(pkin)] :
     /\ Exists(topo, pkrank, c.m, OrbSlot(c.n))
     /\ c.j \in OaJl(pkin, c.n) .. OaJu(pkin, c.n)}

\* C33: the league ranks [0, nmb*2*nvar) map one to one onto (block, face,
\* variable) and the inner indices [0, nk*nj*ni) one to one onto the cells
\* (k, j, i) of the pack range: every cell of every variable of every
\* existing x2-face neighbour is copied exactly once and no cell outside the
\* range is touched
C33_PackIndexBijection ==
  /\ \A c \in DOMAIN pkcopies : pkcopies[c] = 1 /\ c.src \in CellsToPack
  /\ \A c, d \in DOMAIN pkcopies : c.src = d.src => c = d
  /\ Cardinality(pkteams) = league
  /\ OaPackDone =>
       /\ pkteams = MBs(topo, pkrank) \X OrbBufs \X (0 .. (pkin.nvar - 1))
       /\ {c.src : c \in DOMAIN pkcopies} = CellsToPack

\* a pack of more than one variable on a block with more than one cell in
\* each direction and a face wider than the block is long in x1
C33_Witness ==
  /\ OaPackDone
  /\ pkin.nvar > 1 /\ pkin.nx1 > 1 /\ pkin.nx3 > 1
  /\ PackNj(pkin, 0) # PackNi(pkin)
  /\ CellsToPack # {}
  /\ nmb_thispack(topo, pkrank) > 1

\* C34: within one call no two distinct (block, face) sources write the same
\* element of a send or a receive buffer: the direct writes of different
\* blocks and faces go to different (destination block, buffer) regions
C34_DisjointWrites ==
  \A c, d \in DOMAIN pkcopies :
    c.dst = d.dst => (c.src.m = d.src.m /\ c.src.n = d.src.n)

\* two blocks of the rank have written receive buffers, and a send buffer
\* was written as well
C34_Witness ==
  /\ OaPackDone
  /\ \E c, d \in DOMAIN pkcopies :
       /\ c.dst.buf = "rbuf" /\ d.dst.buf = "rbuf"
       /\ c.src.m # d.src.m
  /\ \E c \in DOMAIN pkcopies : c.dst.buf = "sbuf"

\* C35: the update in place of RecvAndUnpackCC_Orb is free of races: on each
\* line every read of u0 into the scratch line comes before any write to u0
\* on the line, no step reads a scratch element before the step that writes
\* it, and a team reads and writes only elements of its own line
C35_UnpackRaceFree ==
  /\ rcbad = {}
  /\ \A e \in rcwr : \A th \in Threads : rcpc[<<e[1], th>>] >= 1
  /\ \A l \in Teams : (\A th \in Threads : rcpc[<<l, th>>] = 0) =>
       \A e \in rcld \cup rcfx \cup rcwr : e[1] # l

\* one team has written u0 while the other team has not started, and the
\* shift makes the load read cells of u0 another thread writes
C35_Witness ==
  /\ rcin.joffset # 0
  /\ \E l, k \in Teams :
       /\ \A th \in Threads : rcpc[<<l, th>>] = Len(Phases)
       /\ \A th \in Threads : rcpc[<<k, th>>] = 0
  /\ rcwr # {}

\* C36: a call of RecvAndUnpackCC_Orb / RecvAndUnpackFC_Orb that returns
\* incomplete changes no receive buffer and does not advance the stage, and
\* the call is made again; a call made when every awaited message has
\* arrived returns complete, reads the buffers once and goes on to the next
\* task
C36_IncompleteIsRepeatedUntilArrival ==
  [][\A r \in Ranks(topo) : OrbPolls(r) =>
       /\ olast'[r].ret = "incomplete" =>
            /\ orb_buf'[r] = orb_buf[r]
            /\ ostage'[r] = ostage[r]
            /\ opc'[r] = opc[r]
       /\ (OrbPending(r) = {} /\ olast'[r].ret # "exit") =>
            /\ olast'[r].ret = "complete"
            /\ opc'[r] # opc[r]
            /\ \A p \in OrbRead(r) :
                 orb_buf'[r][OrbReadKind(OrbKind(r))][p[2]][p[1]].read = ostage[r]]_vars

\* C37: PackAndSendCC_Orb / PackAndSendFC_Orb change no status flag and no
\* request handle of a receive; for a face without neighbour they write no
\* buffer element and post no send; for a neighbour on the own rank they
\* write the receive buffer of the destination block and post no send; for a
\* neighbour on another rank they write the own send buffer and post one
\* send, and write no receive buffer
PackWrites(m, b) == {c \in DOMAIN pkcopies : c.src.m = m /\ c.src.n = b}

PackSendsOf(m, b) ==
  {k \in DOMAIN onet[pkrank] : onet[pkrank][k].m = m /\ onet[pkrank][k].n = OrbSlot(b)}

C37_PackWritesOneSideOnly ==
  /\ pkpc # "idle" =>
       /\ recv_vars_stat = [r \in Ranks(topo) |-> CtorStat(topo, r)]
       /\ send_vars_stat = [r \in Ranks(topo) |-> CtorStat(topo, r)]
       /\ flux_stat = [r \in Ranks(topo) |->
                        [send |-> CtorStat(topo, r), recv |-> CtorStat(topo, r)]]
       /\ orb_rreq = [r \in Ranks(topo) |-> OrbReqInit(r)]
  /\ OaPackDone =>
       \A m \in MBs(topo, pkrank) : \A b \in OrbBufs :
         /\ ~Exists(topo, pkrank, m, OrbSlot(b)) =>
              PackWrites(m, b) = {} /\ PackSendsOf(m, b) = {}
         /\ Local(topo, pkrank, m, OrbSlot(b)) =>
              /\ PackWrites(m, b) # {}
              /\ \A c \in PackWrites(m, b) :
                   /\ c.dst.buf = "rbuf"
                   /\ c.dst.m = OaDestBlock(topo, pkrank, m, b)
              /\ PackSendsOf(m, b) = {}
         /\ Remote(topo, pkrank, m, OrbSlot(b)) =>
              /\ PackWrites(m, b) # {}
              /\ \A c \in PackWrites(m, b) : c.dst.buf = "sbuf" /\ c.dst.m = m
              /\ Cardinality(PackSendsOf(m, b)) = 1

\* a finished call on a rank with a face whose neighbour is on the rank and
\* a face whose neighbour is on another rank
C37_Witness ==
  /\ OaPackDone
  /\ \E m \in MBs(topo, pkrank) : \E b \in OrbBufs :
       Local(topo, pkrank, m, OrbSlot(b)) /\ PackWrites(m, b) # {}
  /\ \E m \in MBs(topo, pkrank) : \E b \in OrbBufs :
       Remote(topo, pkrank, m, OrbSlot(b)) /\ PackSendsOf(m, b) # {}

\* C38: in RecvAndUnpackFC_Orb the shift of a line is computed from the x1
\* of the line, the cell centre for component 0 (B3) and the left edge for
\* component 1 (B1): the integer offset used for the line at i = is is the
\* one that position gives
C38_ShiftFromDefinedX1 ==
  fcpc # "oa-unB" =>
    \A v \in {0, 1} : FcJOffset(fcin) = FcJOffsetOf(FcX1Branch(v, FcLo))

\* C39: with zero integer offset and zero fractional offset (every flux of
\* the remap is zero) RecvAndUnpackFC_Orb leaves b0.x1f, b0.x2f and b0.x3f at
\* the values they had before the call, whatever the EMF arrays held
C39_ZeroShiftLeavesFieldUnchanged ==
  (/\ fcpc = "done"
   /\ FcJOffset(fcin) = 0
   /\ Fmod(0 - FcQomDt * fcin.x1, FcDx2) = 0
   /\ \A j \in FcLo .. (FcHi + 1) : fcin.flxx[j] = 0 /\ fcin.flxz[j] = 0)
    => \A p \in FcIdx :
         /\ b0.x1f[p] = fcin.bval
         /\ b0.x2f[p] = fcin.bval
         /\ b0.x3f[p] = fcin.bval

\* C40: ExpRKUpdate, called for a stage on a pack with at least one cell,
\* does not end the process: it writes f0 for every (block, species-energy
\* index, angle index, interior cell) and returns TaskStatus::complete
RkAllF0 ==
  (0 .. (rkin.nmb - 1))
    \X (0 .. (num_species_energy(rkin) * rkin.num_points - 1))
    \X {0} \X (0 .. (rkin.nx2 - 1)) \X (0 .. (rkin.nx1 - 1))

C40_ExpRKUpdateWritesAllAndReturns ==
  /\ rkpc \in {"idle", "kernel", "complete"}
  /\ rkpc = "complete" => rkf0 = RkAllF0

====
